---- MODULE Spec2Model ----
(***************************************************************************)
(* DiffDelta fleet engine (scripts/diffdelta_engine.py) and the legacy     *)
(* Moltbook generator (scripts/diffdelta_generate.py) as a state machine.  *)
(*                                                                         *)
(* Conventions of the model                                                *)
(*  - A string is a sequence of tokens; the token " " is whitespace.       *)
(*    Python's None, a missing key and "" are all the empty sequence <<>>  *)
(*    wherever the code reads them through `x.get(k) or ""`.               *)
(*  - SHA-256 is injective: a hash is the tuple of a tag and the value     *)
(*    that was canonically encoded.                                        *)
(*  - A file on disk is <<>> when absent and <<doc>> when present.         *)
(*  - Timestamps are integers (seconds); 0 stands for "no timestamp".      *)
(*  - Risk scores are counted in tenths (0.2 is 2, 1.0 is 10).             *)
(***************************************************************************)
EXTENDS Integers, Sequences, FiniteSets, TLC

VARIABLES
    script,                 \* which program this deployment runs
    config,                 \* sources.config.json (fixed during a behaviour)
    clock,                  \* wall clock read by now_iso()
    cycle,                  \* number of runs started so far
    pc,                     \* position of main()
    idx,                    \* loop index of the two loops over sources
    fleet_state,            \* main(): fleet state as loaded at the start of the run
    source_results,         \* main(): source_results, <<>> until processed
    updated_fleet_state,    \* main(): updated_fleet_state
    upstream,               \* what each adapter's fetch returned in this run
    prev_upstream,          \* the same for the previous completed run
    feed,                   \* main(): the global feed built in this run
    fleet_file,             \* diff/_state.json
    top_latest,             \* diff/latest.json
    src_latest,             \* diff/source/<id>/latest.json per source
    known_issues,           \* known_issues.json
    written,                \* files written so far in this run
    src_before,             \* the per-source feeds on disk when this run started
    top_before,             \* diff/latest.json when this run started
    exit_code,              \* exit status of the last run, -1 while none
    twin,                   \* per-source feeds of the same run at another wall-clock time
    molt_state,             \* legacy generator: diff/source/moltbook/_state.json
    molt_latest,            \* legacy generator: diff/source/moltbook/latest.json
    molt_feed,              \* legacy generator: feed built by the last compute_buckets
    telemetry,              \* legacy generator: telemetry/latest.json
    called,                 \* library use: the function called last and its arguments
    returned,               \* library use: what that call returned
    files,                  \* file system: the content of each inode, a sequence of chunks
    dirent,                 \* file system: the inode each path names, 0 when absent
    wpc,                    \* write_json_atomic: position of the writer
    wdoc,                   \* write_json_atomic: number of the document being written
    rpc,                    \* a concurrent reader of the published path: its position
    rfd,                    \* the reader's open inode, 0 when none
    rbuf,                   \* what the reader has read so far
    cache,                  \* client: CursorCache entry "etag:<source_id>", <<>> when none
    server_cursor,          \* the cursor the server publishes for the source
    cpc,                    \* client: position of poll()
    stored_etag,            \* client: stored_etag of fetch_head
    requests,               \* client: the requests sent by the current call, in order
    head,                   \* client: what the head request was answered with
    poll_result,            \* client: what the last call returned
    polls                   \* client: calls made so far

main_vars == <<script, config, clock, cycle, pc, idx, fleet_state, source_results,
               updated_fleet_state, upstream, prev_upstream, feed, fleet_file,
               top_latest, src_latest, known_issues, written, src_before, top_before,
               exit_code, twin, molt_state, molt_latest, molt_feed, telemetry>>

pure_vars == <<called, returned>>

io_vars == <<files, dirent, wpc, wdoc, rpc, rfd, rbuf>>

client_vars == <<cache, server_cursor, cpc, stored_etag, requests, head, poll_result, polls>>

aux_vars == <<pure_vars, io_vars, client_vars>>

vars == <<main_vars, aux_vars>>

engine_vars == <<config, idx, fleet_state, source_results, updated_fleet_state,
                 upstream, prev_upstream, feed, fleet_file, src_latest, twin,
                 src_before, top_before>>

legacy_vars == <<molt_state, molt_latest, molt_feed, telemetry>>

-----------------------------------------------------------------------------
(* Bounds of the model *)

MaxCycles == 2      \* runs of the program in one behaviour
MaxLen == 2         \* longest item list an upstream returns
MaxWrites == 3      \* calls of write_json_atomic on one path in one behaviour
MaxErrorWords == 28 \* words of the longest message an exception carries
MaxPolls == 3       \* calls of poll() or fetch_latest(), and cursors the server publishes

(* Program constants *)

DEFAULT_TTL == 60           \* config.get("ttl_sec", 60)
DEFAULT_MAX_ITEMS == 50     \* config.get("max_items", 50)
TITLE_MAX == 200            \* title[:200]
NARRATIVE_TITLE_MAX == 40   \* title[:40]
NARRATIVE_MAX_WORDS == 30   \* words[:30]
MISSING_FIELD_RISK == 2     \* score += 0.2
FETCH_ERROR_RISK == 5       \* score += 0.5
RISK_CAP == 10              \* min(1.0, score)
MAX_REASONS == 10           \* reasons[:10]
FLAG_THRESHOLD == 4         \* risk_score >= 0.4
HTTP_OK == 200
GLOBAL_TTL == 60            \* "ttl_sec": 60 of the global feed
TTL_SEC == 60               \* legacy generator, TTL_SEC
MAX_ITEMS == 50             \* legacy generator, MAX_ITEMS
KEYWORD_RISK == 15          \* legacy generator, score += 0.15 (in hundredths)
TOKEN_RISK == 35            \* legacy generator, score += 0.35
LEGACY_RISK_CAP == 100      \* legacy generator, min(1.0, score)
LEGACY_FLAG_THRESHOLD == 70 \* legacy generator, risk_score >= 0.7

-----------------------------------------------------------------------------
(* Strings *)

Min(a, b) == IF a <= b THEN a ELSE b

Max(a, b) == IF a >= b THEN a ELSE b

Prefix(s, n) == SubSeq(s, 1, Min(n, Len(s)))

RECURSIVE LStrip(_)
LStrip(s) ==
    IF s # <<>> /\ Head(s) = " " THEN LStrip(Tail(s)) ELSE s

RECURSIVE RStrip(_)
RStrip(s) ==
    IF s # <<>> /\ s[Len(s)] = " " THEN RStrip(SubSeq(s, 1, Len(s) - 1)) ELSE s

\* str.strip()
Strip(s) == RStrip(LStrip(s))

\* `not s or not s.strip()`
IsBlank(s) == Strip(s) = <<>>

\* a or b, on strings
Or(a, b) == IF a # <<>> THEN a ELSE b

RECURSIVE Words(_)
\* str.split(): the maximal runs of non-whitespace tokens
Words(s) ==
    LET t == LStrip(s)
        RECURSIVE Run(_)
        Run(u) == IF u = <<>> \/ Head(u) = " " THEN <<>> ELSE <<Head(u)>> \o Run(Tail(u))
    IN  IF t = <<>> THEN <<>>
        ELSE <<Run(t)>> \o Words(SubSeq(t, Len(Run(t)) + 1, Len(t)))

RECURSIVE Join(_)
\* " ".join(words)
Join(ws) ==
    IF ws = <<>> THEN <<>>
    ELSE IF Len(ws) = 1 THEN ws[1]
    ELSE ws[1] \o <<" ">> \o Join(Tail(ws))

\* str(n) as one token
Str(n) == <<ToString(n)>>

-----------------------------------------------------------------------------
(* Hashes and cursors *)

\* "sha256:" + "0" * 64
ZERO_CURSOR == <<"sha256:0">>

\* sha256_bytes(canonical_json(obj)), injective
sha256_bytes(tag, obj) == <<tag, obj>>

\* "sha256:" + sha256_bytes(canonical_json(payload))
MakeCursor(payload) == <<"sha256", payload>>

\* `x or zero`: the stored cursor, the zero sentinel when none is stored
CursorOrZero(c) == IF c = <<>> THEN ZERO_CURSOR ELSE c

RECURSIVE InsertById(_, _)
InsertById(x, sorted) ==
    IF sorted = <<>> THEN <<x>>
    ELSE IF x.id < Head(sorted).id THEN <<x>> \o sorted
    ELSE <<Head(sorted)>> \o InsertById(x, Tail(sorted))

RECURSIVE SortById(_)
\* list.sort(key=id) / sorted(key=id): stable, equal ids keep their input order
SortById(s) ==
    IF s = <<>> THEN <<>>
    ELSE InsertById(s[Len(s)], SortById(SubSeq(s, 1, Len(s) - 1)))

-----------------------------------------------------------------------------
(* Configuration and upstream universe *)

Sources == {"a", "b"}

\* One entry of "sources" in sources.config.json.  adapter "" and latest ""
\* stand for a missing key; ttl and max_items are <<>> when missing.
SourceConfig(enabled, adapter, ttl, max_items, latest) ==
    [enabled |-> enabled, adapter |-> adapter, ttl |-> ttl,
     max_items |-> max_items, latest |-> latest]

\* The configuration file: absent, without sources, or with sources a and b
\* in declaration order.
Config(exists, order, a, b) ==
    [exists |-> exists, order |-> order,
     sources |-> [s \in Sources |-> IF s = "a" THEN a ELSE b]]

NoSource == SourceConfig(FALSE, "", <<>>, <<>>, "")

FullA == SourceConfig(TRUE, "json", <<DEFAULT_TTL>>, <<2>>, "diff/source/a/latest.json")

FullB == SourceConfig(TRUE, "json", <<0>>, <<1>>, "diff/source/b/latest.json")

DisabledB == SourceConfig(FALSE, "json", <<>>, <<>>, "diff/source/b/latest.json")

Configs ==
    { Config(FALSE, <<>>, NoSource, NoSource),
      Config(TRUE, <<>>, NoSource, NoSource),
      Config(TRUE, <<"a", "b">>, FullA, FullB),
      Config(TRUE, <<"a", "b">>, FullA, DisabledB),
      Config(TRUE, <<"a", "b">>, FullA,
             SourceConfig(TRUE, "", <<>>, <<>>, "diff/source/b/latest.json")),
      Config(TRUE, <<"a", "b">>,
             SourceConfig(TRUE, "bogus", <<>>, <<>>, "diff/source/a/latest.json"), FullB),
      Config(TRUE, <<"a", "b">>, SourceConfig(TRUE, "json", <<>>, <<2>>, ""), DisabledB) }

\* A raw upstream item.  id 0: no id key; published_at 0: no parseable date.
RawItem(id, url, title, content, published_at, extra) ==
    [id |-> id, url |-> url, title |-> title, content |-> content,
     published_at |-> published_at, extra |-> extra]

RawItems(s) ==
    IF s = "a"
    THEN { RawItem(1, <<"http://u/1">>, <<"T">>, <<"c">>, 1, "x"),
           RawItem(1, <<"http://u/1">>, <<>>, <<" ">>, 0, "y"),
           RawItem(2, <<>>, <<"T", " ">>, <<"c">>, 0, "x") }
    ELSE { RawItem(0, <<>>, <<>>, <<"c">>, 1, "x") }

RECURSIVE SeqsUpTo(_, _)
SeqsUpTo(S, n) ==
    IF n = 0 THEN {<<>>}
    ELSE LET shorter == SeqsUpTo(S, n - 1)
         IN  shorter \cup { Append(q, x) : q \in {r \in shorter : Len(r) = n - 1}, x \in S }

\* What the upstream serves and what becomes of it in one run:
\*   ok     (items, 200, None)
\*   http   ([], 503, "HTTP 503")
\*   decode ([], 200, "JSON fetch error ...")
\*   raise  the fetch returns a list whose elements are no mappings and
\*          normalize_item raises inside process_source's try block
Response(kind, items, status, error) ==
    [kind |-> kind, items |-> items, status |-> status, error |-> error]

NoFetch == Response("none", <<>>, 0, <<>>)

\* JSONAdapter.fetch: `return items[:self.max_items], status, None`
Fetch(max_items, served) == [served EXCEPT !.items = Prefix(served.items, max_items)]

Responses(s) ==
    { Response("ok", q, HTTP_OK, <<>>) : q \in SeqsUpTo(RawItems(s), MaxLen) }
    \cup (IF s = "a"
          THEN { Response("decode", <<>>, HTTP_OK, <<"JSON", " ", "fetch", " ", "error">>),
                 Response("raise", <<>>, HTTP_OK, <<"AttributeError">>) }
          ELSE { Response("http", <<>>, 503, <<>>) })

-----------------------------------------------------------------------------
(* Adapters *)

\* Position of a string in the table of the strings upstream items use: the
\* model's order on the ids that best_effort_id derives by hashing.
StringTable ==
    <<<<>>, <<" ">>, <<"T">>, <<"T", " ">>, <<"c">>, <<"http://u/1">>,
      <<" ", "T">>, <<" ", "T", " ">>>>

StringCode(s) == CHOOSE i \in 1..Len(StringTable) : StringTable[i] = s

\* BaseAdapter.best_effort_id
best_effort_id(item) ==
    IF item.id # 0 THEN item.id
    ELSE 1000 + 100 * StringCode(item.url) + StringCode(item.title)

\* BaseAdapter.best_effort_url
best_effort_url(item, item_id) ==
    Or(item.url, <<"https://unknown/", ToString(item_id)>>)

\* BaseAdapter.best_effort_times: <<published_at, updated_at>>
best_effort_times(item, now) ==
    LET created == IF item.published_at = 0 THEN now ELSE item.published_at
    IN  <<created, created>>

\* JSONAdapter.normalize_item
normalize_item(source_name, raw_item, now) ==
    LET item_id == best_effort_id(raw_item)
        times == best_effort_times(raw_item, now)
    IN  [source |-> source_name,
         id |-> item_id,
         url |-> best_effort_url(raw_item, item_id),
         title |-> Prefix(raw_item.title, TITLE_MAX),
         published_at |-> times[1],
         updated_at |-> times[2],
         content |-> raw_item.content]

\* self.max_items = config.get("max_items", 50)
MaxItemsOf(source_config) ==
    IF source_config.max_items = <<>> THEN DEFAULT_MAX_ITEMS ELSE source_config.max_items[1]

\* config.get("ttl_sec", 60)
TtlOf(source_config) ==
    IF source_config.ttl = <<>> THEN DEFAULT_TTL ELSE source_config.ttl[1]

\* compute_source_hash hashing the items' timestamps as well
compute_source_hash_timed(source_name, max_items, items) ==
    LET top == Prefix(items, max_items)
        canonical_items ==
            [i \in 1..Len(top) |->
                [id |-> top[i].id, url |-> top[i].url,
                 title |-> Strip(top[i].title), content |-> Strip(top[i].content),
                 published_at |-> top[i].published_at]]
    IN  sha256_bytes("source", [source |-> source_name, items |-> SortById(canonical_items)])

\* BaseAdapter.compute_source_hash
compute_source_hash(source_name, max_items, items) ==
    LET top == Prefix(items, max_items)
        canonical_items ==
            [i \in 1..Len(top) |->
                [id |-> top[i].id, url |-> top[i].url,
                 title |-> Strip(top[i].title), content |-> Strip(top[i].content)]]
    IN  sha256_bytes("source", [source |-> source_name, items |-> SortById(canonical_items)])

\* compute_content_hash
compute_content_hash(item) ==
    sha256_bytes("content",
        [title |-> Strip(item.title), content |-> Strip(item.content), url |-> Strip(item.url)])

-----------------------------------------------------------------------------
(* Risk v0 *)

\* calculate_risk_v0 without the cap of the score at 1.0
calculate_risk_v0_uncapped(item, fetch_failed, http_status) ==
    LET r1 == IF IsBlank(item.title) THEN <<"missing_title">> ELSE <<>>
        r2 == IF IsBlank(item.url) THEN <<"missing_url">> ELSE <<>>
        r3 == IF IsBlank(item.content) THEN <<"missing_content">> ELSE <<>>
        r4 == IF fetch_failed \/ (http_status # -1 /\ http_status # HTTP_OK)
              THEN <<"fetch_error">> ELSE <<>>
        score == MISSING_FIELD_RISK * (Len(r1) + Len(r2) + Len(r3)) + FETCH_ERROR_RISK * Len(r4)
    IN  [score |-> score, reasons |-> Prefix(r1 \o r2 \o r3 \o r4, MAX_REASONS)]

\* calculate_risk_v0: [score, reasons]; http_status -1 stands for None
calculate_risk_v0(item, fetch_failed, http_status) ==
    LET r1 == IF IsBlank(item.title) THEN <<"missing_title">> ELSE <<>>
        r2 == IF IsBlank(item.url) THEN <<"missing_url">> ELSE <<>>
        r3 == IF IsBlank(item.content) THEN <<"missing_content">> ELSE <<>>
        r4 == IF fetch_failed \/ (http_status # -1 /\ http_status # HTTP_OK)
              THEN <<"fetch_error">> ELSE <<>>
        score == MISSING_FIELD_RISK * (Len(r1) + Len(r2) + Len(r3)) + FETCH_ERROR_RISK * Len(r4)
    IN  [score |-> Min(RISK_CAP, score),
         reasons |-> Prefix(r1 \o r2 \o r3 \o r4, MAX_REASONS)]

-----------------------------------------------------------------------------
(* Fleet state *)

\* One source's entry of diff/_state.json; a missing key is <<>> or 0.
Entry(last_hash, last_cursor, last_success_at, last_error, last_error_at) ==
    [last_hash |-> last_hash, last_cursor |-> last_cursor,
     last_success_at |-> last_success_at, last_error |-> last_error,
     last_error_at |-> last_error_at]

\* fleet_state.get(source_name, {})
EmptyEntry == Entry(<<>>, <<>>, 0, <<>>, 0)

\* read_json(FLEET_STATE_PATH, default={})
EmptyFleet ==
    [sources |-> [s \in Sources |-> EmptyEntry],
     global |-> [last_cursor |-> <<>>, last_run_at |-> 0]]

\* The second element of process_source's return value.
StateUpdate(kind, last_hash, last_cursor, last_success_at, last_error, last_error_at) ==
    [kind |-> kind, last_hash |-> last_hash, last_cursor |-> last_cursor,
     last_success_at |-> last_success_at, last_error |-> last_error,
     last_error_at |-> last_error_at]

\* {}
NoUpdate == StateUpdate("none", <<>>, <<>>, 0, <<>>, 0)

\* {"last_error_at": now_iso(), "last_error": ...}
ErrorUpdate(now, error) == StateUpdate("error", <<>>, <<>>, 0, error, now)

\* {"last_hash": ..., "last_cursor": ..., "last_success_at": fetched_at}
OkUpdate(source_hash, cursor, fetched_at) ==
    StateUpdate("ok", source_hash, cursor, fetched_at, <<>>, 0)

\* the entry replaced by the update instead of updated with it
ApplyUpdate_replace(entry, upd) ==
    IF upd.kind = "none" THEN entry
    ELSE Entry(upd.last_hash, upd.last_cursor, upd.last_success_at,
               upd.last_error, upd.last_error_at)

\* fleet_state[source_name].update(state_update)
ApplyUpdate(entry, upd) ==
    IF upd.kind = "ok"
    THEN [entry EXCEPT !.last_hash = upd.last_hash, !.last_cursor = upd.last_cursor,
                       !.last_success_at = upd.last_success_at]
    ELSE IF upd.kind = "error"
    THEN [entry EXCEPT !.last_error = upd.last_error, !.last_error_at = upd.last_error_at]
    ELSE entry

-----------------------------------------------------------------------------
(* process_source *)

BucketNames == {"new", "updated", "removed", "flagged"}

EmptyBuckets == [new |-> <<>>, updated |-> <<>>, removed |-> <<>>, flagged |-> <<>>]

\* The first element of process_source's return value.  has_buckets tells
\* whether the "buckets" key is present.
Result(status, changed, cursor, prev_cursor, ttl_sec, error, has_buckets, buckets) ==
    [status |-> status, changed |-> changed, cursor |-> cursor,
     prev_cursor |-> prev_cursor, ttl_sec |-> ttl_sec, error |-> error,
     has_buckets |-> has_buckets, buckets |-> buckets]

\* the result of a disabled source
DisabledResult(last_cursor, ttl_sec) ==
    Result("disabled", FALSE, last_cursor, last_cursor, ttl_sec, <<>>, FALSE, EmptyBuckets)

\* the result of the three error returns
ErrorResult(last_cursor, ttl_sec, error) ==
    Result("error", FALSE, last_cursor, last_cursor, ttl_sec, error, FALSE, EmptyBuckets)

\* the result of the no-change short circuit
UnchangedResult(last_cursor, ttl_sec) ==
    Result("ok", FALSE, last_cursor, last_cursor, ttl_sec, <<>>, TRUE, EmptyBuckets)

\* the result of the changed path
ChangedResult(cursor, last_cursor, ttl_sec, buckets) ==
    Result("ok", TRUE, cursor, CursorOrZero(last_cursor), ttl_sec, <<>>, TRUE, buckets)

\* raw_items_map.get(item["id"], {}): the last raw item that normalized to id
RawItemFor(items, normalized_items, id) ==
    LET hits == { i \in 1..Len(items) : normalized_items[i].id = id }
    IN  items[CHOOSE i \in hits : \A j \in hits : j <= i]

\* source_payload: the raw item minus the keys id, url, title, content, ...
SourcePayload(raw_item) ==
    [extra |-> raw_item.extra, published_at |-> raw_item.published_at]

\* is_flagged = risk_score >= 0.4
\* the threshold taken as exclusive
is_flagged_above(risk_score) == risk_score > FLAG_THRESHOLD

is_flagged(risk_score) == risk_score >= FLAG_THRESHOLD

\* the processed_item built in the loop over normalized_items
ProcessedItem(item, raw_item, http_status, fetched_at) ==
    LET risk == calculate_risk_v0(item, FALSE, http_status)
    IN  [source |-> item.source,
         id |-> item.id,
         url |-> item.url,
         title |-> item.title,
         published_at |-> item.published_at,
         updated_at |-> item.updated_at,
         signals |-> <<>>,
         action_items |-> <<>>,
         summary |-> Or(item.title, <<"Update", " ", "detected.">>),
         risk |-> [score |-> Max(0, Min(RISK_CAP, risk.score)),
                   reasons |-> Prefix(risk.reasons, MAX_REASONS)],
         provenance |-> [fetched_at |-> fetched_at,
                         evidence_urls |-> <<item.url>>,
                         content_hash |-> compute_content_hash(item)],
         source_payload |-> SourcePayload(raw_item)]

\* every item appended to new, quarantine left out
BucketOf_new(processed_item) == "new"

\* the bucket an item is appended to
BucketOf(processed_item) ==
    IF is_flagged(processed_item.risk.score) THEN "flagged" ELSE "new"

\* buckets after the loop over normalized_items
BuildBuckets(processed_items) ==
    LET InNew(x) == BucketOf(x) = "new"
        InFlagged(x) == BucketOf(x) = "flagged"
    IN  [new |-> SelectSeq(processed_items, InNew),
         updated |-> <<>>,
         removed |-> <<>>,
         flagged |-> SelectSeq(processed_items, InFlagged)]

\* canonical_payload without its items
CanonicalPayload_bare(source_name, processed_items) ==
    [schema_version |-> "1.0.0", sources_included |-> <<source_name>>]

\* canonical_payload with the items' fetched_at left in
CanonicalPayload_timed(source_name, processed_items) ==
    [schema_version |-> "1.0.0",
     sources_included |-> <<source_name>>,
     items |-> SortById([i \in 1..Len(processed_items) |->
                            [id |-> processed_items[i].id,
                             url |-> processed_items[i].url,
                             title |-> processed_items[i].title,
                             fetched_at |-> processed_items[i].provenance.fetched_at,
                             content_hash |-> processed_items[i].provenance.content_hash]])]

\* canonical_payload of the per-source cursor
CanonicalPayload(source_name, processed_items) ==
    [schema_version |-> "1.0.0",
     sources_included |-> <<source_name>>,
     items |-> SortById([i \in 1..Len(processed_items) |->
                            [id |-> processed_items[i].id,
                             url |-> processed_items[i].url,
                             title |-> processed_items[i].title,
                             content_hash |-> processed_items[i].provenance.content_hash]])]

AdapterNames == {"rss", "json", "github_api", "github_releases", "html", "moltbook"}

\* Whether process_source gets as far as adapter.fetch()
Fetches(source_config) ==
    source_config.enabled /\ source_config.adapter \in AdapterNames

\* the except branch of process_source
ExceptionReturn(last_cursor, ttl_sec, error, now) ==
    [result |-> ErrorResult(last_cursor, ttl_sec, error), update |-> ErrorUpdate(now, error)]

\* the `if error_msg or http_status != 200` branch
FetchErrorReturn(last_cursor, ttl_sec, response, now) ==
    LET error == Or(response.error, <<"HTTP", " ", ToString(response.status)>>)
    IN  [result |-> ErrorResult(last_cursor, ttl_sec, error), update |-> ErrorUpdate(now, error)]

\* the muting left out: every fetch is processed as a change
HashUnchanged_never(source_hash, last_hash) == FALSE

\* `if source_hash == last_hash`: change-only muting
HashUnchanged(source_hash, last_hash) == source_hash = last_hash

\* process_source from "Normalize items" to its last return
DiffReturn(source_name, source_config, prev_state, response, now) ==
    LET max_items == MaxItemsOf(source_config)
        ttl_sec == TtlOf(source_config)
        items == Prefix(response.items, max_items)
        fetched_at == now
        normalized_items == [i \in 1..Len(items) |-> normalize_item(source_name, items[i], fetched_at)]
        source_hash == compute_source_hash(source_name, max_items, normalized_items)
        last_hash == prev_state.last_hash
        last_cursor == CursorOrZero(prev_state.last_cursor)
        processed_items ==
            [i \in 1..Len(items) |->
                ProcessedItem(normalized_items[i],
                              RawItemFor(items, normalized_items, normalized_items[i].id),
                              response.status, fetched_at)]
        cursor == MakeCursor(CanonicalPayload(source_name, processed_items))
    IN  IF HashUnchanged(source_hash, last_hash)
        THEN [result |-> UnchangedResult(last_cursor, ttl_sec),
              update |-> OkUpdate(source_hash, last_cursor, fetched_at)]
        ELSE [result |-> ChangedResult(cursor, last_cursor, ttl_sec, BuildBuckets(processed_items)),
              update |-> OkUpdate(source_hash, cursor, fetched_at)]

\* process_source(source_name, source_config, fleet_state), with the response
\* of the adapter and the wall clock as explicit inputs
process_source(source_name, source_config, state, response, now) ==
    LET prev_state == state.sources[source_name]
        last_cursor == CursorOrZero(prev_state.last_cursor)
    IN  IF ~source_config.enabled
        THEN [result |-> DisabledResult(last_cursor, TtlOf(source_config)), update |-> NoUpdate]
        ELSE IF source_config.adapter = ""
        THEN [result |-> ErrorResult(last_cursor, DEFAULT_TTL,
                                     <<"No", " ", "adapter", " ", "specified">>),
              update |-> NoUpdate]
        ELSE IF source_config.adapter \notin AdapterNames
        THEN ExceptionReturn(last_cursor, TtlOf(source_config),
                             <<"ValueError:", " ", "Unknown", " ", "adapter", " ", "type">>, now)
        ELSE IF response.kind = "raise"
        THEN ExceptionReturn(last_cursor, TtlOf(source_config), response.error, now)
        ELSE IF response.error # <<>> \/ response.status # HTTP_OK
        THEN FetchErrorReturn(last_cursor, TtlOf(source_config), response, now)
        ELSE DiffReturn(source_name, source_config, prev_state, response, now)

-----------------------------------------------------------------------------
(* main(): aggregation and feed documents *)

\* A sentence from one-token words
Sentence(ws) == Join([i \in 1..Len(ws) |-> <<ws[i]>>])

\* The result of a processed source
ResultOf(results, s) == results[s][1]

\* all_buckets with each source's items put in front of the earlier ones
RECURSIVE MergeBuckets_prepend(_, _, _)
MergeBuckets_prepend(order, results, n) ==
    IF n = 0 THEN EmptyBuckets
    ELSE LET rest == MergeBuckets_prepend(order, results, n - 1)
             r == ResultOf(results, order[n])
         IN  IF r.changed /\ r.has_buckets
             THEN [b \in BucketNames |-> r.buckets[b] \o rest[b]]
             ELSE rest

RECURSIVE MergeBuckets(_, _, _)
\* all_buckets after the first n sources of the loop over sources.items()
MergeBuckets(order, results, n) ==
    IF n = 0 THEN EmptyBuckets
    ELSE LET rest == MergeBuckets(order, results, n - 1)
             r == ResultOf(results, order[n])
         IN  IF r.changed /\ r.has_buckets
             THEN [b \in BucketNames |-> rest[b] \o r.buckets[b]]
             ELSE rest

\* global_changed after the loop
GlobalChanged(order, results) ==
    \E i \in 1..Len(order) : ResultOf(results, order[i]).changed

\* canonical_global
CanonicalGlobal(order, results) ==
    [schema_version |-> "1.0.0",
     sources_included |-> { order[i] : i \in 1..Len(order) },
     sources |-> [s \in { order[i] : i \in 1..Len(order) } |->
                    [changed |-> ResultOf(results, s).changed,
                     cursor |-> ResultOf(results, s).cursor]]]

PrevGlobalCursor_zero(state) == ZERO_CURSOR

\* prev_global_cursor
PrevGlobalCursor(state) == CursorOrZero(state.global.last_cursor)

\* global_cursor without the enforcement of the cursor invariant
GlobalCursor_unenforced(order, results, state) ==
    MakeCursor(CanonicalGlobal(order, results))

\* global_cursor after "Enforce cursor invariant"
GlobalCursor(order, results, state) ==
    IF ~GlobalChanged(order, results)
    THEN PrevGlobalCursor(state)
    ELSE MakeCursor(CanonicalGlobal(order, results))

\* "<n> changes (<k> new, ...) <f> flagged." cut to 30 words
CountsNarrative(prefix, buckets) ==
    LET new_count == Len(buckets.new)
        updated_count == Len(buckets.updated)
        removed_count == Len(buckets.removed)
        flagged_count == Len(buckets.flagged)
        total == new_count + updated_count + removed_count
        new_part == Str(new_count) \o <<" ", "new">>
        updated_part == Str(updated_count) \o <<" ", "updated">>
        removed_part == Str(removed_count) \o <<" ", "removed">>
        subparts ==
            IF new_count > 0 /\ (updated_count > 0 \/ removed_count > 0)
            THEN <<new_part>>
                 \o (IF updated_count > 0 THEN <<updated_part>> ELSE <<>>)
                 \o (IF removed_count > 0 THEN <<removed_part>> ELSE <<>>)
            ELSE IF new_count > 0 THEN <<new_part>>
            ELSE IF updated_count > 0 THEN <<updated_part>>
            ELSE IF removed_count > 0 THEN <<removed_part>>
            ELSE <<>>
        RECURSIVE CommaJoin(_)
        CommaJoin(ps) ==
            IF Len(ps) = 1 THEN ps[1] ELSE ps[1] \o <<",", " ">> \o CommaJoin(Tail(ps))
        parts ==
            <<prefix \o Str(total) \o <<" ", "changes">>>>
            \o (IF subparts # <<>> THEN <<<<"(">> \o CommaJoin(subparts) \o <<")">>>> ELSE <<>>)
            \o (IF flagged_count > 0 THEN <<Str(flagged_count) \o <<" ", "flagged">>>> ELSE <<>>)
        narrative == Join(parts) \o <<".">>
        words == Words(narrative)
    IN  IF Len(words) > NARRATIVE_MAX_WORDS
        THEN Join(SubSeq(words, 1, NARRATIVE_MAX_WORDS)) \o <<"...">>
        ELSE narrative

\* the change_type and title of the single changed item
SingleChange(buckets) ==
    LET item == (buckets.new \o buckets.updated \o buckets.removed)[1]
        change_type == IF buckets.new # <<>> THEN "new"
                       ELSE IF buckets.updated # <<>> THEN "updated" ELSE "removed"
    IN  [change_type |-> change_type,
         title |-> Prefix(Or(item.title, item.summary), NARRATIVE_TITLE_MAX)]

\* batch_narrative of the global feed
GlobalNarrative(global_changed, all_buckets) ==
    LET total_changes == Len(all_buckets.new) + Len(all_buckets.updated) + Len(all_buckets.removed)
        flagged_count == Len(all_buckets.flagged)
    IN  IF ~global_changed THEN Sentence(<<"No", "changes", "detected.">>)
        ELSE IF total_changes = 0 /\ flagged_count = 1
        THEN Sentence(<<"1", "flagged", "item", "detected.">>)
        ELSE IF total_changes = 0 /\ flagged_count > 0
        THEN Str(flagged_count) \o <<" ">> \o Sentence(<<"flagged", "items", "detected.">>)
        ELSE IF total_changes = 0 THEN Sentence(<<"No", "changes", "detected.">>)
        ELSE IF total_changes = 1
        THEN LET c == SingleChange(all_buckets)
             IN  <<IF c.change_type = "new" THEN "New"
                   ELSE IF c.change_type = "updated" THEN "Updated" ELSE "Removed">>
                 \o <<" ", "'">> \o c.title \o <<"'.">>
        ELSE CountsNarrative(<<>>, all_buckets)

\* source_narrative of an enabled source's feed
SourceNarrative(source_name, source_result, source_buckets) ==
    LET source_total == Len(source_buckets.new) + Len(source_buckets.updated)
                        + Len(source_buckets.removed)
        source_flagged == Len(source_buckets.flagged)
        scope == <<source_name, ":">>
    IN  IF ~source_result.changed \/ (source_total = 0 /\ source_flagged = 0)
        THEN scope \o <<" ">> \o Sentence(<<"No", "changes", "detected.">>)
        ELSE IF source_total = 0
        THEN scope \o <<" ">> \o Str(source_flagged) \o <<" ">>
             \o Sentence(<<"flagged", "item(s)", "detected.">>)
        ELSE IF source_total = 1
        THEN LET c == SingleChange(source_buckets)
             IN  scope \o <<" ", c.change_type, " ", "'">> \o c.title \o <<"'.">>
        ELSE CountsNarrative(scope \o <<" ">>, source_buckets)

SourceStatus_prev(changed, cursor, prev_cursor, ttl_sec, status, error) ==
    [changed |-> changed, cursor |-> prev_cursor, prev_cursor |-> prev_cursor,
     ttl_sec |-> ttl_sec, status |-> status, error |-> error]

\* one entry of a feed's "sources" map
SourceStatus(changed, cursor, prev_cursor, ttl_sec, status, error) ==
    [changed |-> changed, cursor |-> cursor, prev_cursor |-> prev_cursor,
     ttl_sec |-> ttl_sec, status |-> status, error |-> error]

\* a feed document
FeedDocument(generated_at, cursor, prev_cursor, changed, ttl_sec, sources_included, batch_narrative, sources, buckets) ==
    [schema_version |-> "1.0.0", generated_at |-> generated_at, cursor |-> cursor,
     prev_cursor |-> prev_cursor, changed |-> changed, ttl_sec |-> ttl_sec,
     sources_included |-> sources_included, batch_narrative |-> batch_narrative,
     sources |-> sources, buckets |-> buckets]

\* feed: the global feed document
GlobalFeed(order, results, state, generated_at) ==
    LET names == { order[i] : i \in 1..Len(order) }
        global_changed == GlobalChanged(order, results)
        all_buckets == MergeBuckets(order, results, Len(order))
    IN  FeedDocument(generated_at,
                     GlobalCursor(order, results, state),
                     PrevGlobalCursor(state),
                     global_changed,
                     GLOBAL_TTL,
                     names,
                     GlobalNarrative(global_changed, all_buckets),
                     [s \in names |->
                        LET r == ResultOf(results, s)
                        IN  SourceStatus(r.changed, CursorOrZero(r.cursor),
                                         CursorOrZero(r.prev_cursor),
                                         r.ttl_sec, r.status, r.error)],
                     all_buckets)

\* source_feed: the per-source feed document of one source
SourceFeed(source_name, source_result, generated_at) ==
    IF source_result.status = "disabled"
    THEN FeedDocument(generated_at, source_result.cursor, source_result.prev_cursor, FALSE,
                      source_result.ttl_sec, {source_name},
                      <<source_name, ":", " ">> \o Sentence(<<"Source", "disabled.">>),
                      [s \in {source_name} |->
                         SourceStatus(FALSE, source_result.cursor, source_result.prev_cursor,
                                      source_result.ttl_sec, "disabled", <<>>)],
                      EmptyBuckets)
    ELSE IF source_result.status = "error"
    THEN FeedDocument(generated_at, source_result.cursor, source_result.prev_cursor, FALSE,
                      source_result.ttl_sec, {source_name},
                      <<source_name, ":", " ", "Error", " ", "-", " ">>
                          \o source_result.error \o <<".">>,
                      [s \in {source_name} |->
                         SourceStatus(FALSE, source_result.cursor, source_result.prev_cursor,
                                      source_result.ttl_sec, "error", source_result.error)],
                      EmptyBuckets)
    ELSE LET source_buckets == source_result.buckets
         IN  FeedDocument(generated_at, source_result.cursor, source_result.prev_cursor,
                          source_result.changed, source_result.ttl_sec, {source_name},
                          SourceNarrative(source_name, source_result, source_buckets),
                          [s \in {source_name} |->
                             SourceStatus(source_result.changed, source_result.cursor,
                                          source_result.prev_cursor, source_result.ttl_sec,
                                          source_result.status, source_result.error)],
                          source_buckets)

\* fleet_state after "Update fleet state", as written to diff/_state.json
NextFleetState(state, updates, global_cursor, generated_at) ==
    [sources |-> [s \in Sources |-> ApplyUpdate(state.sources[s], updates[s])],
     global |-> [last_cursor |-> global_cursor, last_run_at |-> generated_at]]

\* error_count of the summary
ErrorCount(order, results) ==
    Cardinality({ i \in 1..Len(order) : ResultOf(results, order[i]).status = "error" })

\* the exit status counting every source that is not ok
ExitStatus_not_ok(order, results) ==
    IF \E i \in 1..Len(order) : ResultOf(results, order[i]).status # "ok" THEN 1 ELSE 0

\* the exit status of main after the summary
ExitStatus(order, results) ==
    IF ErrorCount(order, results) > 0 THEN 1 ELSE 0

-----------------------------------------------------------------------------
(* The engine's run: main() of diffdelta_engine.py *)

Order == config.order

\* The fleet state a run starts from
LoadedFleet == IF fleet_file = <<>> THEN EmptyFleet ELSE fleet_file[1]

\* A state file of a deployment that recorded hashes before it recorded cursors
HashOnlyFleet ==
    LET item == RawItem(1, <<"http://u/1">>, <<"T">>, <<"c">>, 1, "x")
        h == compute_source_hash("a", 2, <<normalize_item("a", item, 1)>>)
    IN  [EmptyFleet EXCEPT !.sources["a"].last_hash = h]

\* The deployments: a configuration and the state file the first run finds
Deployments ==
    { [config |-> c, fleet_file |-> <<>>] : c \in Configs }
    \cup { [config |-> Config(TRUE, <<"a", "b">>, FullA, DisabledB),
            fleet_file |-> <<HashOnlyFleet>>] }

NoResults == [s \in Sources |-> <<>>]

EngineInit ==
    /\ \E d \in Deployments :
           /\ config = d.config
           /\ fleet_file = d.fleet_file
           /\ script = "generate" => d = [config |-> Config(FALSE, <<>>, NoSource, NoSource),
                                          fleet_file |-> <<>>]
    /\ idx = 0
    /\ fleet_state = EmptyFleet
    /\ source_results = NoResults
    /\ updated_fleet_state = [s \in Sources |-> NoUpdate]
    /\ upstream = [s \in Sources |-> NoFetch]
    /\ prev_upstream = [s \in Sources |-> NoFetch]
    /\ feed = <<>>
    /\ src_latest = [s \in Sources |-> <<>>]
    /\ src_before = [s \in Sources |-> <<>>]
    /\ top_before = <<>>
    /\ twin = NoResults

\* main(): the configuration file is missing, sys.exit(1)
ExitNoConfig ==
    /\ script = "engine"
    /\ pc = "idle"
    /\ cycle < MaxCycles
    /\ ~config.exists
    /\ cycle' = cycle + 1
    /\ exit_code' = 1
    /\ written' = {}
    /\ UNCHANGED <<aux_vars, script, clock, pc, top_latest, known_issues, engine_vars, legacy_vars>>

\* main(): no sources configured, sys.exit(0)
ExitNoSources ==
    /\ script = "engine"
    /\ pc = "idle"
    /\ cycle < MaxCycles
    /\ config.exists
    /\ Order = <<>>
    /\ cycle' = cycle + 1
    /\ exit_code' = 0
    /\ written' = {}
    /\ UNCHANGED <<aux_vars, script, clock, pc, top_latest, known_issues, engine_vars, legacy_vars>>

\* main(): load the fleet state and enter the loop over the sources
StartCycle ==
    /\ script = "engine"
    /\ pc = "idle"
    /\ cycle < MaxCycles
    /\ config.exists
    /\ Order # <<>>
    /\ cycle' = cycle + 1
    /\ pc' = "process"
    /\ idx' = 1
    /\ fleet_state' = LoadedFleet
    /\ source_results' = NoResults
    /\ updated_fleet_state' = [s \in Sources |-> NoUpdate]
    /\ prev_upstream' = upstream
    /\ upstream' = [s \in Sources |-> NoFetch]
    /\ feed' = <<>>
    /\ twin' = NoResults
    /\ written' = {}
    /\ src_before' = src_latest
    /\ top_before' = top_latest
    /\ exit_code' = -1
    /\ clock' = clock + 1
    /\ UNCHANGED <<aux_vars, script, config, fleet_file, top_latest, src_latest,
                   known_issues, legacy_vars>>

\* the loop over the sources left at the first source that ends in error
ProcessSource_abort ==
    /\ pc = "process"
    /\ LET s == Order[idx]
           source_config == config.sources[s]
       IN  \E served \in Responses(s) :
               LET response == Fetch(MaxItemsOf(source_config), served)
                   ret == process_source(s, source_config, fleet_state, response, clock)
                   other == process_source(s, source_config, fleet_state, response, clock + 1)
                   last == idx = Len(Order) \/ ret.result.status = "error"
               IN  /\ source_results' = [source_results EXCEPT ![s] = <<ret.result>>]
                   /\ updated_fleet_state' = [updated_fleet_state EXCEPT ![s] = ret.update]
                   /\ twin' = [twin EXCEPT ![s] = <<other.result>>]
                   /\ upstream' = [upstream EXCEPT
                                     ![s] = IF Fetches(source_config) THEN response ELSE NoFetch]
                   /\ idx' = IF last THEN 0 ELSE idx + 1
                   /\ pc' = IF last THEN "global" ELSE "process"
    /\ UNCHANGED <<aux_vars, script, config, clock, cycle, fleet_state, prev_upstream, feed, fleet_file,
                   top_latest, src_latest, known_issues, written, src_before, top_before, exit_code, legacy_vars>>

\* main(): one iteration of `for source_name, source_config in sources.items()`
ProcessSource ==
    /\ pc = "process"
    /\ LET s == Order[idx]
           source_config == config.sources[s]
       IN  \E served \in Responses(s) :
               LET response == Fetch(MaxItemsOf(source_config), served)
                   ret == process_source(s, source_config, fleet_state, response, clock)
                   other == process_source(s, source_config, fleet_state, response, clock + 1)
               IN  /\ source_results' = [source_results EXCEPT ![s] = <<ret.result>>]
                   /\ updated_fleet_state' = [updated_fleet_state EXCEPT ![s] = ret.update]
                   /\ twin' = [twin EXCEPT ![s] = <<other.result>>]
                   /\ upstream' = [upstream EXCEPT
                                     ![s] = IF Fetches(source_config) THEN response ELSE NoFetch]
    /\ idx' = IF idx = Len(Order) THEN 0 ELSE idx + 1
    /\ pc' = IF idx = Len(Order) THEN "global" ELSE "process"
    /\ UNCHANGED <<aux_vars, script, config, clock, cycle, fleet_state, prev_upstream, feed, fleet_file,
                   top_latest, src_latest, known_issues, written, src_before, top_before, exit_code, legacy_vars>>

\* the global feed written whether or not anything changed
PublishGlobal_always ==
    /\ pc = "global"
    /\ LET doc == GlobalFeed(Order, source_results, fleet_state, clock)
       IN  /\ feed' = <<doc>>
           /\ top_latest' = <<doc>>
           /\ written' = written \cup {"diff/latest.json"}
    /\ pc' = "persource"
    /\ idx' = 1
    /\ UNCHANGED <<aux_vars, script, config, clock, cycle, fleet_state, source_results,
                   updated_fleet_state, upstream, prev_upstream, fleet_file, src_latest,
                   known_issues, src_before, top_before, exit_code, twin, legacy_vars>>

\* the fleet state written together with the global feed, before the per-source feeds
PublishGlobal_state_first ==
    /\ pc = "global"
    /\ LET doc == GlobalFeed(Order, source_results, fleet_state, clock)
       IN  /\ feed' = <<doc>>
           /\ top_latest' = IF doc.changed THEN <<doc>> ELSE top_latest
           /\ fleet_file' = <<NextFleetState(fleet_state, updated_fleet_state,
                                             doc.cursor, doc.generated_at)>>
           /\ written' = (IF doc.changed THEN written \cup {"diff/latest.json"} ELSE written)
                         \cup {"diff/_state.json"}
    /\ pc' = "persource"
    /\ idx' = 1
    /\ UNCHANGED <<aux_vars, script, config, clock, cycle, fleet_state, source_results,
                   updated_fleet_state, upstream, prev_upstream, src_latest,
                   known_issues, src_before, top_before, exit_code, twin, legacy_vars>>

\* main(): build the global feed and write diff/latest.json if global_changed
PublishGlobal ==
    /\ pc = "global"
    /\ LET doc == GlobalFeed(Order, source_results, fleet_state, clock)
       IN  /\ feed' = <<doc>>
           /\ top_latest' = IF doc.changed THEN <<doc>> ELSE top_latest
           /\ written' = IF doc.changed THEN written \cup {"diff/latest.json"} ELSE written
    /\ pc' = "persource"
    /\ idx' = 1
    /\ UNCHANGED <<aux_vars, script, config, clock, cycle, fleet_state, source_results,
                   updated_fleet_state, upstream, prev_upstream, fleet_file, src_latest,
                   known_issues, src_before, top_before, exit_code, twin, legacy_vars>>

\* main(): one iteration of the loop that writes the per-source feeds
WriteSourceFeed ==
    /\ pc = "persource"
    /\ LET s == Order[idx]
           source_latest_path == config.sources[s].latest
       IN  IF source_latest_path = ""
           THEN UNCHANGED <<src_latest, written>>
           ELSE /\ src_latest' = [src_latest EXCEPT
                     ![s] = <<SourceFeed(s, ResultOf(source_results, s), feed[1].generated_at)>>]
                /\ written' = written \cup {source_latest_path}
    /\ idx' = IF idx = Len(Order) THEN 0 ELSE idx + 1
    /\ pc' = IF idx = Len(Order) THEN "state" ELSE "persource"
    /\ UNCHANGED <<aux_vars, script, config, clock, cycle, fleet_state, source_results,
                   updated_fleet_state, upstream, prev_upstream, feed, fleet_file,
                   top_latest, known_issues, src_before, top_before, exit_code, twin, legacy_vars>>

\* main(): update the fleet state and write diff/_state.json
WriteFleetState ==
    /\ pc = "state"
    /\ fleet_file' = <<NextFleetState(fleet_state, updated_fleet_state,
                                      feed[1].cursor, feed[1].generated_at)>>
    /\ written' = written \cup {"diff/_state.json"}
    /\ pc' = "summary"
    /\ UNCHANGED <<aux_vars, script, config, clock, cycle, idx, fleet_state, source_results,
                   updated_fleet_state, upstream, prev_upstream, feed, top_latest,
                   src_latest, known_issues, src_before, top_before, exit_code, twin, legacy_vars>>

\* main(): print the summary and exit
Exit ==
    /\ pc = "summary"
    /\ exit_code' = ExitStatus(Order, source_results)
    /\ pc' = "idle"
    /\ UNCHANGED <<aux_vars, script, config, clock, cycle, idx, fleet_state, source_results,
                   updated_fleet_state, upstream, prev_upstream, feed, fleet_file,
                   top_latest, src_latest, known_issues, written, src_before, top_before, twin, legacy_vars>>

EngineNext ==
    \/ ExitNoConfig
    \/ ExitNoSources
    \/ StartCycle
    \/ ProcessSource
    \/ PublishGlobal
    \/ WriteSourceFeed
    \/ WriteFleetState
    \/ Exit

-----------------------------------------------------------------------------
(* The legacy generator: diffdelta_generate.py *)

PostIds == {1, 2}

\* A Moltbook post: id, updated_at, title, the keyword hits and token match of
\* its text, and its score field.
Post(id, updated_at, title, keywords, token, votes) ==
    [id |-> id, updated_at |-> updated_at, title |-> title,
     keywords |-> keywords, token |-> token, votes |-> votes]

Posts ==
    { Post(1, 1, <<"T">>, 0, FALSE, 0),
      Post(1, 1, <<"T">>, 0, FALSE, 1),
      Post(2, 2, <<"U">>, 3, FALSE, 0),
      Post(2, 2, <<"U">>, 3, TRUE, 0) }

\* make_cursor / parse_cursor: "{updated_at}|{id}" as the pair it parses to
make_cursor(updated_at, stable_id) == [ts |-> updated_at, id |-> stable_id]

\* "init|0", which parse_cursor reads as (epoch, "0")
INIT_CURSOR == make_cursor(0, 0)

\* is_after_cursor
is_after_cursor(updated_at, pid, boundary_cursor) ==
    IF updated_at > boundary_cursor.ts THEN TRUE
    ELSE IF updated_at < boundary_cursor.ts THEN FALSE
    ELSE pid > boundary_cursor.id

\* content_fingerprint
content_fingerprint(p) == <<"fp", p.title, p.keywords, p.token, p.votes>>

\* risk_assess: [score, reasons], the score in hundredths
risk_assess(p) ==
    [score |-> Min(LEGACY_RISK_CAP,
                   KEYWORD_RISK * p.keywords + (IF p.token THEN TOKEN_RISK ELSE 0)),
     reasons |-> (IF p.keywords > 0 THEN <<"keyword">> ELSE <<>>)
                 \o (IF p.token THEN <<"possible_secret">> ELSE <<>>)]

\* build_delta_item
build_delta_item(p, fetched_at, change_reason, risk) ==
    [source |-> "moltbook", id |-> p.id, title |-> Prefix(p.title, TITLE_MAX),
     updated_at |-> p.updated_at, change_reason |-> change_reason,
     summary |-> Or(Strip(p.title), <<"Update", " ", "detected.">>),
     risk |-> [score |-> Max(0, Min(LEGACY_RISK_CAP, risk.score)), reasons |-> risk.reasons],
     provenance |-> [fetched_at |-> fetched_at]]

\* the key of normalized.sort(..., reverse=True)
Newer(x, y) == x.updated_at > y.updated_at \/ (x.updated_at = y.updated_at /\ x.id > y.id)

RECURSIVE InsertNewest(_, _)
InsertNewest(x, sorted) ==
    IF sorted = <<>> THEN <<x>>
    ELSE IF Newer(x, Head(sorted)) THEN <<x>> \o sorted
    ELSE <<Head(sorted)>> \o InsertNewest(x, Tail(sorted))

RECURSIVE SortNewest(_)
\* sort newest -> oldest, equal keys in input order
SortNewest(s) ==
    IF s = <<>> THEN <<>>
    ELSE InsertNewest(s[Len(s)], SortNewest(SubSeq(s, 1, Len(s) - 1)))

\* The private state of the legacy generator; hash_by_id[i] is <<>> for an
\* id that is not in the map.
MoltState(cursor, hash_by_id) == [cursor |-> cursor, hash_by_id |-> hash_by_id]

EmptyMoltState == MoltState(INIT_CURSOR, [i \in PostIds |-> <<>>])

\* what the loop over normalized does with one row
Classify(p, prev_cursor, prev_hash_by_id) ==
    LET risk == risk_assess(p)
        flagged == risk.score >= LEGACY_FLAG_THRESHOLD
        old_hash == prev_hash_by_id[p.id]
    IN  IF is_after_cursor(p.updated_at, p.id, prev_cursor)
        THEN IF flagged THEN "flagged_new" ELSE "new"
        ELSE IF old_hash # <<>> /\ content_fingerprint(p) # old_hash
        THEN IF flagged THEN "flagged_edit" ELSE "updated"
        ELSE "none"

\* next_cursor following the frontier whether or not anything changed
NextCursor_frontier(changed, frontier_cursor, prev_cursor) == frontier_cursor

\* next_cursor = frontier_cursor if changed else prev_cursor
NextCursor(changed, frontier_cursor, prev_cursor) ==
    IF changed THEN frontier_cursor ELSE prev_cursor

\* compute_buckets(prev_state, posts): [feed, next_state]
compute_buckets(prev_state, posts, now) ==
    LET prev_cursor == prev_state.cursor
        prev_hash_by_id == prev_state.hash_by_id
        normalized == Prefix(SortNewest(posts), MAX_ITEMS)
        frontier_cursor ==
            IF normalized # <<>>
            THEN make_cursor(normalized[1].updated_at, normalized[1].id)
            ELSE prev_cursor
        Kind(p) == Classify(p, prev_cursor, prev_hash_by_id)
        IsNew(p) == Kind(p) = "new"
        IsUpdated(p) == Kind(p) = "updated"
        IsFlagged(p) == Kind(p) \in {"flagged_new", "flagged_edit"}
        Item(p) == build_delta_item(p, now,
                       IF Kind(p) \in {"new", "flagged_new"} THEN "new_item" ELSE "content_edit",
                       risk_assess(p))
        Items(q) == [i \in 1..Len(q) |-> Item(q[i])]
        changed == \E i \in 1..Len(normalized) : Kind(normalized[i]) # "none"
        next_cursor == NextCursor(changed, frontier_cursor, prev_cursor)
        seen == { normalized[i].id : i \in 1..Len(normalized) }
        LastOf(id) == CHOOSE i \in 1..Len(normalized) :
                          /\ normalized[i].id = id
                          /\ \A j \in 1..Len(normalized) : normalized[j].id = id => j <= i
        next_hash_by_id ==
            IF seen = {} THEN prev_hash_by_id
            ELSE [i \in PostIds |->
                    IF i \in seen THEN content_fingerprint(normalized[LastOf(i)]) ELSE <<>>]
    IN  [feed |-> [generated_at |-> now, cursor |-> next_cursor, prev_cursor |-> prev_cursor,
                   changed |-> changed, ttl_sec |-> TTL_SEC,
                   new |-> Items(SelectSeq(normalized, IsNew)),
                   updated |-> Items(SelectSeq(normalized, IsUpdated)),
                   removed |-> <<>>,
                   flagged |-> Items(SelectSeq(normalized, IsFlagged))],
         next_state |-> MoltState(next_cursor, next_hash_by_id)]

\* load_prev_published_cursor
load_prev_published_cursor(latest) ==
    IF latest = <<>> THEN INIT_CURSOR ELSE latest[1].cursor

\* set_known_issues(issues): the file afterwards
set_known_issues(existing, issues, now) ==
    IF existing # <<>> /\ existing[1].issues = issues
    THEN existing
    ELSE <<[schema_version |-> "1.0.0", generated_at |-> now, issues |-> issues]>>

\* the issue main() reports when the fetch fails
FetchFailedIssue(now) ==
    [issue_key |-> <<"moltbook", "_fetch_failed">>, status |-> "active",
     scope |-> [level |-> "source", ref |-> "moltbook"],
     first_seen_at |-> now, last_updated_at |-> now]

LegacyInit ==
    /\ molt_state = <<>>
    /\ molt_latest = <<>>
    /\ molt_feed = <<>>
    /\ telemetry = <<>>

\* main() of the generator when fetch_moltbook_posts() returns posts
GenerateOk ==
    /\ script = "generate"
    /\ pc = "idle"
    /\ cycle < MaxCycles
    /\ \E posts \in SeqsUpTo(Posts, MaxLen) :
           LET now == clock + 1
               loaded == IF molt_state = <<>> THEN EmptyMoltState ELSE molt_state[1]
               prev_state == [loaded EXCEPT !.cursor = load_prev_published_cursor(molt_latest)]
               ret == compute_buckets(prev_state, posts, now)
           IN  /\ molt_feed' = <<ret.feed>>
               /\ molt_latest' = IF ret.feed.changed THEN <<ret.feed>> ELSE molt_latest
               /\ top_latest' = IF ret.feed.changed THEN <<ret.feed>> ELSE top_latest
               /\ telemetry' = <<[fetch_ok |-> TRUE, items_fetched |-> Len(posts),
                                  changed |-> ret.feed.changed, cursor |-> ret.feed.cursor,
                                  prev_cursor |-> ret.feed.prev_cursor]>>
               /\ known_issues' = set_known_issues(known_issues, <<>>, now)
               /\ molt_state' = <<ret.next_state>>
               /\ written' = (IF ret.feed.changed
                              THEN {"diff/source/moltbook/latest.json", "diff/latest.json"}
                              ELSE {})
                             \cup {"telemetry/latest.json", "diff/source/moltbook/_state.json"}
                             \cup (IF known_issues' # known_issues
                                   THEN {"known_issues.json"} ELSE {})
    /\ clock' = clock + 1
    /\ cycle' = cycle + 1
    /\ exit_code' = 0
    /\ UNCHANGED <<aux_vars, script, pc, engine_vars>>

\* main() of the generator when fetch_moltbook_posts() raises
GenerateFail ==
    /\ script = "generate"
    /\ pc = "idle"
    /\ cycle < MaxCycles
    /\ known_issues' = set_known_issues(known_issues, <<FetchFailedIssue(clock + 1)>>, clock + 1)
    /\ written' = IF known_issues' # known_issues THEN {"known_issues.json"} ELSE {}
    /\ clock' = clock + 1
    /\ cycle' = cycle + 1
    /\ exit_code' = 1
    /\ UNCHANGED <<aux_vars, script, pc, top_latest, engine_vars, legacy_vars>>

LegacyNext ==
    \/ GenerateOk
    \/ GenerateFail

-----------------------------------------------------------------------------
(* Library use: the pure functions of the engine called on their own *)

\* No call yet
NoCall == [op |-> "none", args |-> <<>>]

PureInit ==
    /\ called = NoCall
    /\ returned = <<>>

\* A normalized item as calculate_risk_v0 reads it
NormalizedItem(source, id, url, title, published_at, updated_at, content) ==
    [source |-> source, id |-> id, url |-> url, title |-> title,
     published_at |-> published_at, updated_at |-> updated_at, content |-> content]

\* The texts a field of an item is tried with: missing, blank, present
Texts == {<<>>, <<" ">>, <<"T">>}

RiskItems ==
    { NormalizedItem("a", id, url, title, 1, 1, content) :
        id \in {1, 2}, url \in Texts, title \in Texts, content \in Texts }

\* http_status: None (-1), the status 0 of a network fault, 200 and 503
Statuses == {-1, 0, HTTP_OK, 503}

\* calculate_risk_v0(item, fetch_failed, http_status)
CallRisk ==
    /\ script = "library"
    /\ \E item \in RiskItems, fetch_failed \in BOOLEAN, http_status \in Statuses :
           /\ called' = [op |-> "calculate_risk_v0", args |-> <<item, fetch_failed, http_status>>]
           /\ returned' = calculate_risk_v0(item, fetch_failed, http_status)
    /\ UNCHANGED <<main_vars, io_vars, client_vars>>

\* A message of n words, as str(e) of a requests exception
Message(n) == [i \in 1..(2 * n - 1) |-> IF i % 2 = 1 THEN "w" ELSE " "]

\* What adapter.fetch() can return as error_msg, or raise
FailedResponses ==
    { Response("http", <<>>, 503, <<>>) }
    \cup { Response(kind, <<>>, HTTP_OK, Message(n)) :
             kind \in {"decode", "raise"}, n \in {1, MaxErrorWords} }

\* process_source for one source, then the per-source feed main builds from its result
CallSourceFeed ==
    /\ script = "library"
    /\ \E s \in Sources, source_config \in {FullA, FullB, DisabledB}, now \in 1..2 :
       \E served \in Responses(s) \cup FailedResponses :
           LET response == Fetch(MaxItemsOf(source_config), served)
               ret == process_source(s, source_config, EmptyFleet, response, now)
           IN  /\ called' = [op |-> "source_feed", args |-> <<s, source_config, response, now>>]
               /\ returned' = SourceFeed(s, ret.result, now)
    /\ UNCHANGED <<main_vars, io_vars, client_vars>>

\* The text with whitespace added in front of it and after it
Pad(text, lead, trail) ==
    (IF lead THEN <<" ">> ELSE <<>>) \o text \o (IF trail THEN <<" ">> ELSE <<>>)

\* Upstream items with and without an id key
PlainItems == { RawItem(id, <<"http://u/1">>, <<"T">>, <<"c">>, 1, "x") : id \in {0, 1} }

\* The state file after a cycle over one source
StateAfter(state, s, update) ==
    [state EXCEPT !.sources[s] = ApplyUpdate(state.sources[s], update)]

\* Two cycles of process_source for source a: the second upstream differs from
\* the first in leading and trailing whitespace of the title and the content only
CallPadded ==
    /\ script = "library"
    /\ \E x \in PlainItems, pad \in [{"tl", "tt", "cl", "ct"} -> BOOLEAN] :
           LET y == [x EXCEPT !.title = Pad(x.title, pad["tl"], pad["tt"]),
                              !.content = Pad(x.content, pad["cl"], pad["ct"])]
               max_items == MaxItemsOf(FullA)
               first == process_source("a", FullA, EmptyFleet,
                                       Response("ok", <<x>>, HTTP_OK, <<>>), 1)
               second == process_source("a", FullA, StateAfter(EmptyFleet, "a", first.update),
                                        Response("ok", <<y>>, HTTP_OK, <<>>), 2)
               nx == normalize_item("a", x, 1)
               ny == normalize_item("a", y, 2)
           IN  /\ called' = [op |-> "padded", args |-> <<x, y>>]
               /\ returned' = [content_hash |-> <<compute_content_hash(nx), compute_content_hash(ny)>>,
                               source_hash |-> <<compute_source_hash("a", max_items, <<nx>>),
                                                 compute_source_hash("a", max_items, <<ny>>)>>,
                               first |-> first.result,
                               second |-> second.result]
    /\ UNCHANGED <<main_vars, io_vars, client_vars>>

-----------------------------------------------------------------------------
(* The reference client: clients/python/diffdelta_client.py *)

\* One entry of the "snapshots" list of an archive index; url 0: no url key
ArchiveEntries == { [url |-> u] : u \in 0..2 }

\* The archive indexes
ArchiveIndexes == SeqsUpTo(ArchiveEntries, MaxLen)

\* self._fetch_json(url) of a snapshot that can be fetched
Snapshot(url) == [snapshot_of |-> url]

\* entries[-limit:]
LastEntries(entries, limit) ==
    IF limit = 0 THEN entries
    ELSE SubSeq(entries, Max(1, Len(entries) - limit + 1), Len(entries))

\* entries[::-1]
RECURSIVE Reverse(_)
Reverse(entries) ==
    IF entries = <<>> THEN <<>> ELSE Reverse(Tail(entries)) \o <<Head(entries)>>

\* the loop of walk_back over the entries left, newest first
RECURSIVE WalkEntries(_, _)
WalkEntries(entries, failing) ==
    IF entries = <<>> THEN <<>>
    ELSE IF Head(entries).url = 0 THEN WalkEntries(Tail(entries), failing)
    ELSE IF Head(entries).url \in failing THEN <<>>
    ELSE <<Snapshot(Head(entries).url)>> \o WalkEntries(Tail(entries), failing)

\* DiffDeltaClient.walk_back(source_id, limit) over an archive index whose
\* snapshot urls in `failing` cannot be fetched
walk_back(entries, limit, failing) ==
    WalkEntries(Reverse(LastEntries(entries, limit)), failing)

CallWalkBack ==
    /\ script = "library"
    /\ \E entries \in ArchiveIndexes, limit \in 0..MaxLen, failing \in {{}, {1}, {2}} :
           /\ called' = [op |-> "walk_back", args |-> <<entries, limit, failing>>]
           /\ returned' = walk_back(entries, limit, failing)
    /\ UNCHANGED <<main_vars, io_vars, client_vars>>

\* One HTTP request of the client; if_none_match <<>>: header not sent
HttpRequest(url, if_none_match) == [url |-> url, if_none_match |-> if_none_match]

\* What self._get returns for the head: (status, body, etag_from_response).
\* changed is "true", "false" or "absent" (the body has no such key).
HeadResponse(status, changed, resp_etag) ==
    [status |-> status, changed |-> changed, resp_etag |-> resp_etag]

NoHead == HeadResponse(0, "absent", <<>>)

\* (body or {}).get("changed", True)
HeadChanged(response) == response.changed # "false"

\* fetch_head: (changed, head); head <<>> stands for None
fetch_head(response) ==
    IF response.status = 304 THEN [changed |-> FALSE, head |-> <<>>]
    ELSE [changed |-> HeadChanged(response), head |-> <<response>>]

\* the latest feed requested whatever the head says
FetchesLatest_always(ret) == TRUE

\* poll: whether latest.json is fetched after fetch_head returned
FetchesLatest(ret) ==
    /\ ~(~ret.changed \/ ret.head = <<>>)
    /\ HeadChanged(ret.head[1])

ClientInit ==
    /\ cache = <<>>
    /\ server_cursor = 1
    /\ cpc = "idle"
    /\ stored_etag = <<>>
    /\ requests = <<>>
    /\ head = NoHead
    /\ poll_result = "none yet"
    /\ polls = 0

\* the engine publishes a new cursor for the source
ServerPublish ==
    /\ script = "client"
    /\ server_cursor < MaxPolls
    /\ server_cursor' = server_cursor + 1
    /\ UNCHANGED <<main_vars, pure_vars, io_vars, cache, cpc, stored_etag, requests, head,
                   poll_result, polls>>

\* poll(source_id) or fetch_latest(source_id) up to the head request of fetch_head
Poll ==
    /\ script = "client"
    /\ cpc = "idle"
    /\ polls < MaxPolls
    /\ polls' = polls + 1
    /\ stored_etag' = cache
    /\ requests' = <<HttpRequest("head.json", cache)>>
    /\ head' = NoHead
    /\ poll_result' = "pending"
    /\ cpc' = "head"
    /\ UNCHANGED <<main_vars, pure_vars, io_vars, cache, server_cursor>>

\* what poll does with the answer to the head request
PollAfterHead(response) ==
    LET ret == fetch_head(response)
    IN  /\ head' = response
        /\ cache' = IF response.status # 304 /\ response.resp_etag # <<>>
                    THEN response.resp_etag ELSE cache
        /\ IF FetchesLatest(ret)
           THEN /\ requests' = Append(requests, HttpRequest("latest.json", <<>>))
                /\ cpc' = "latest"
                /\ UNCHANGED poll_result
           ELSE /\ poll_result' = "None"
                /\ cpc' = "idle"
                /\ UNCHANGED requests
        /\ UNCHANGED <<main_vars, pure_vars, io_vars, server_cursor, stored_etag, polls>>

\* the server answers 304: the If-None-Match sent names its current cursor
HeadNotModified ==
    /\ script = "client"
    /\ cpc = "head"
    /\ requests[1].if_none_match = <<server_cursor>>
    /\ PollAfterHead(HeadResponse(304, "absent", <<server_cursor>>))

\* the server answers 200 with a head document
HeadOk ==
    /\ script = "client"
    /\ cpc = "head"
    /\ \E changed \in {"true", "false", "absent"}, resp_etag \in {<<>>, <<server_cursor>>} :
           PollAfterHead(HeadResponse(200, changed, resp_etag))

\* the head request fails: _get raises and so does the call
HeadFails ==
    /\ script = "client"
    /\ cpc = "head"
    /\ poll_result' = "raised"
    /\ cpc' = "idle"
    /\ UNCHANGED <<main_vars, pure_vars, io_vars, cache, server_cursor, stored_etag, requests,
                   head, polls>>

\* _fetch_json(latest_url) returns the feed, or raises
LatestAnswered ==
    /\ script = "client"
    /\ cpc = "latest"
    /\ \E outcome \in {"feed", "raised"} : poll_result' = outcome
    /\ cpc' = "idle"
    /\ UNCHANGED <<main_vars, pure_vars, io_vars, cache, server_cursor, stored_etag, requests,
                   head, polls>>

-----------------------------------------------------------------------------
(* The validator: scripts/diffdelta_validate.py *)

\* A feed file as the validator loads it.  changed is "true", "false" or
\* "absent"; cursor and prev_cursor are <<>> when absent; buckets is <<>> when
\* the key is absent and else the one-element list of what is under it; top
\* holds the keys new, updated, removed, flagged of the top level.  A bucket
\* is "list", "other" (present, not a list) or "missing".
JsonFeed(changed, cursor, prev_cursor, buckets, top) ==
    [changed |-> changed, cursor |-> cursor, prev_cursor |-> prev_cursor,
     buckets |-> buckets, top |-> top]

AllBuckets(shape) == [n \in BucketNames |-> shape]

\* Four lists, or one of the four missing or not a list
BucketShapes ==
    { AllBuckets("list") }
    \cup { [AllBuckets("list") EXCEPT ![n] = shape] :
             n \in BucketNames, shape \in {"missing", "other"} }

\* The feed files handed to the validator
JsonFeeds ==
    { JsonFeed(changed, cursor, prev_cursor, buckets, top) :
        changed \in {"true", "false", "absent"},
        cursor \in {<<>>, <<"sha256:1">>},
        prev_cursor \in {<<>>, <<"sha256:1">>, <<"sha256:2">>},
        buckets \in {<<>>} \cup { <<shape>> : shape \in BucketShapes },
        top \in {AllBuckets("list"), AllBuckets("missing"),
                 [AllBuckets("list") EXCEPT !["new"] = "other"]} }

\* The file write_json_atomic writes for a feed document of the engine
JsonOf(doc) ==
    JsonFeed(IF doc.changed THEN "true" ELSE "false", doc.cursor, doc.prev_cursor,
             <<[n \in BucketNames |-> "list"]>>, AllBuckets("missing"))

\* the four buckets looked up at the top level only
check_logic_invariants_top(loaded) ==
    IF loaded.changed # "true" /\ loaded.cursor # loaded.prev_cursor THEN "raises"
    ELSE IF \E n \in BucketNames : loaded.top[n] # "list" THEN "raises"
    ELSE "passes"

\* check_logic_invariants(feed_path), on the loaded feed
check_logic_invariants(loaded) ==
    LET changed == loaded.changed = "true"
        buckets_obj == IF loaded.buckets # <<>> THEN loaded.buckets[1] ELSE loaded.top
    IN  IF ~changed /\ loaded.cursor # loaded.prev_cursor THEN "raises"
        ELSE IF \E n \in BucketNames : buckets_obj[n] # "list" THEN "raises"
        ELSE "passes"

\* load(feed_path): some feed file is on disk
LoadFeed ==
    /\ script = "validator"
    /\ called = NoCall
    /\ \E loaded \in JsonFeeds :
           called' = [op |-> "load", args |-> <<loaded>>, written_by |-> "anyone"]
    /\ UNCHANGED <<returned, main_vars, io_vars, client_vars>>

\* check_logic_invariants on the loaded feed
CallValidate ==
    /\ script = "validator"
    /\ called.op = "load"
    /\ called' = [called EXCEPT !.op = "check_logic_invariants"]
    /\ returned' = check_logic_invariants(called.args[1])
    /\ UNCHANGED <<main_vars, io_vars, client_vars>>

\* The feed documents main builds in one cycle over sources a and b
CycleDocuments(sources_config, state, responses, now) ==
    LET order == <<"a", "b">>
        results == [s \in Sources |->
                      <<process_source(s, sources_config[s], state,
                                       Fetch(MaxItemsOf(sources_config[s]), responses[s]),
                                       now).result>>]
    IN  { GlobalFeed(order, results, state, now) }
        \cup { SourceFeed(s, ResultOf(results, s), now) : s \in Sources }

\* The state file after a first cycle in which source a returned one item
SeenFleet ==
    LET item == RawItem(1, <<"http://u/1">>, <<"T">>, <<"c">>, 1, "x")
        first == process_source("a", FullA, EmptyFleet, Response("ok", <<item>>, HTTP_OK, <<>>), 1)
    IN  StateAfter(EmptyFleet, "a", first.update)

\* load(feed_path): the feed file is one that main of the engine has written
LoadWritten ==
    /\ script = "validator"
    /\ called = NoCall
    /\ \E c \in { Config(TRUE, <<"a", "b">>, FullA, FullB),
                   Config(TRUE, <<"a", "b">>, FullA, DisabledB) },
          state \in {EmptyFleet, HashOnlyFleet, SeenFleet},
          ra \in Responses("a"), rb \in Responses("b") :
       \E doc \in CycleDocuments(c.sources, state,
                                  [s \in Sources |-> IF s = "a" THEN ra ELSE rb], 2) :
           called' = [op |-> "load", args |-> <<JsonOf(doc)>>, written_by |-> "engine"]
    /\ UNCHANGED <<returned, main_vars, io_vars, client_vars>>

-----------------------------------------------------------------------------
(* write_json_atomic and a concurrent reader of the path it replaces *)

\* The published path and the paths write_json_atomic touches for it
PublishedPath == "diff/latest.json"

\* the document written straight to the published path
TmpPath_none(path) == path

\* tmp = path + ".tmp"
TmpPath(path) == IF path = PublishedPath THEN "diff/latest.json.tmp" ELSE path

Paths == {PublishedPath, "diff/latest.json.tmp"}

\* The chunks json.dump(obj, f) writes for the v-th document
Dump(v) == <<"{", ToString(v), "}">>

\* The file write_json_atomic produces for the v-th document
Document(v) == Dump(v) \o <<"\n">>

IoInit ==
    /\ files = <<>>
    /\ dirent = [p \in Paths |-> 0]
    /\ wpc = "idle"
    /\ wdoc = 0
    /\ rpc = "idle"
    /\ rfd = 0
    /\ rbuf = <<>>

\* open(tmp, "w"): create the file, or truncate it when it exists
WriteOpen ==
    /\ script = "publisher"
    /\ wpc = "idle"
    /\ wdoc < MaxWrites
    /\ wdoc' = wdoc + 1
    /\ LET tmp == TmpPath(PublishedPath)
       IN  IF dirent[tmp] = 0
           THEN /\ files' = Append(files, <<>>)
                /\ dirent' = [dirent EXCEPT ![tmp] = Len(files) + 1]
           ELSE /\ files' = [files EXCEPT ![dirent[tmp]] = <<>>]
                /\ UNCHANGED dirent
    /\ wpc' = "dump"
    /\ UNCHANGED <<main_vars, pure_vars, client_vars, rpc, rfd, rbuf>>

\* json.dump(obj, f): one more chunk reaches the file
WriteChunk ==
    /\ script = "publisher"
    /\ wpc = "dump"
    /\ LET inode == dirent[TmpPath(PublishedPath)]
           n == Len(files[inode])
       IN  /\ n < Len(Dump(wdoc))
           /\ files' = [files EXCEPT ![inode] = Append(@, Dump(wdoc)[n + 1])]
           /\ wpc' = IF n + 1 = Len(Dump(wdoc)) THEN "newline" ELSE "dump"
    /\ UNCHANGED <<main_vars, pure_vars, client_vars, dirent, wdoc, rpc, rfd, rbuf>>

\* f.write("\n") and the end of the with block
WriteNewline ==
    /\ script = "publisher"
    /\ wpc = "newline"
    /\ files' = [files EXCEPT ![dirent[TmpPath(PublishedPath)]] = Append(@, "\n")]
    /\ wpc' = "replace"
    /\ UNCHANGED <<main_vars, pure_vars, client_vars, dirent, wdoc, rpc, rfd, rbuf>>

\* os.replace(tmp, path): the path dirent the inode of tmp, tmp is gone
WriteReplace ==
    /\ script = "publisher"
    /\ wpc = "replace"
    /\ LET tmp == TmpPath(PublishedPath)
       IN  dirent' = [p \in Paths |->
                        IF p = PublishedPath THEN dirent[tmp]
                        ELSE IF p = tmp THEN 0 ELSE dirent[p]]
    /\ wpc' = "idle"
    /\ UNCHANGED <<main_vars, pure_vars, client_vars, files, wdoc, rpc, rfd, rbuf>>

\* the reader opens the published path
ReadOpen ==
    /\ script = "publisher"
    /\ rpc \in {"idle", "done"}
    /\ dirent[PublishedPath] # 0
    /\ rfd' = dirent[PublishedPath]
    /\ rbuf' = <<>>
    /\ rpc' = "reading"
    /\ UNCHANGED <<main_vars, pure_vars, client_vars, files, dirent, wpc, wdoc>>

\* the reader reads the next chunk of its open file
ReadChunk ==
    /\ script = "publisher"
    /\ rpc = "reading"
    /\ Len(rbuf) < Len(files[rfd])
    /\ rbuf' = Append(rbuf, files[rfd][Len(rbuf) + 1])
    /\ UNCHANGED <<main_vars, pure_vars, client_vars, files, dirent, wpc, wdoc, rpc, rfd>>

\* the reader reaches the end of its open file
ReadEnd ==
    /\ script = "publisher"
    /\ rpc = "reading"
    /\ Len(rbuf) >= Len(files[rfd])
    /\ rpc' = "done"
    /\ UNCHANGED <<main_vars, pure_vars, client_vars, files, dirent, wpc, wdoc, rfd, rbuf>>

-----------------------------------------------------------------------------
(* The system *)

Init ==
    /\ script \in {"engine", "generate"}
    /\ clock = 0
    /\ cycle = 0
    /\ pc = "idle"
    /\ top_latest = <<>>
    /\ known_issues = <<>>
    /\ written = {}
    /\ exit_code = -1
    /\ EngineInit
    /\ LegacyInit
    /\ PureInit
    /\ IoInit
    /\ ClientInit

Next ==
    \/ EngineNext
    \/ LegacyNext

Spec == Init /\ [][Next]_vars

\* No program runs: the state of a deployment without configuration, used by who
Parked(who) ==
    /\ script = who
    /\ clock = 0
    /\ cycle = 0
    /\ pc = "idle"
    /\ top_latest = <<>>
    /\ known_issues = <<>>
    /\ written = {}
    /\ exit_code = -1
    /\ EngineInit
    /\ config = Config(FALSE, <<>>, NoSource, NoSource)
    /\ fleet_file = <<>>
    /\ LegacyInit
    /\ PureInit
    /\ IoInit
    /\ ClientInit

\* The library on its own: the functions are called directly
LibraryInit == Parked("library")

LibraryNext ==
    \/ CallRisk
    \/ CallSourceFeed
    \/ CallPadded
    \/ CallWalkBack

LibrarySpec == LibraryInit /\ [][LibraryNext]_vars

\* write_json_atomic replacing one path while another process reads it
PublisherInit == Parked("publisher")

PublisherNext ==
    \/ WriteOpen
    \/ WriteChunk
    \/ WriteNewline
    \/ WriteReplace
    \/ ReadOpen
    \/ ReadChunk
    \/ ReadEnd

PublisherSpec == PublisherInit /\ [][PublisherNext]_vars

\* The reference client polling one source of a server
PollingInit == Parked("client")

ClientNext ==
    \/ ServerPublish
    \/ Poll
    \/ HeadNotModified
    \/ HeadOk
    \/ HeadFails
    \/ LatestAnswered

ClientSpec == PollingInit /\ [][ClientNext]_vars

\* The validator run on feed files
ValidatorInit == Parked("validator")

ValidatorNext ==
    \/ LoadFeed
    \/ LoadWritten
    \/ CallValidate

ValidatorSpec == ValidatorInit /\ [][ValidatorNext]_vars

-----------------------------------------------------------------------------
(* Vocabulary of the claims *)

\* The sources that process_source has handled in the current run
Processed == { s \in Sources : source_results[s] # <<>> }

\* A run of the engine over its sources has completed
EngineRunDone ==
    script = "engine" /\ pc = "idle" /\ cycle > 0 /\ config.exists /\ Order # <<>>

\* The sources of the configuration
Configured == { Order[i] : i \in 1..Len(Order) }

\* The identities (source, id) of the items of a list
Ids(items) == { <<items[i].source, items[i].id>> : i \in 1..Len(items) }

\* The items of a list, as a set
Range(items) == { items[i] : i \in 1..Len(items) }

\* The feed documents the engine has built or published
EngineFeeds ==
    { src_latest[s][1] : s \in { t \in Sources : src_latest[t] # <<>> } }
    \cup (IF feed # <<>> THEN {feed[1]} ELSE {})
    \cup (IF script = "engine" /\ top_latest # <<>> THEN {top_latest[1]} ELSE {})

\* The fetch of source s failed in the current run
FetchFailed(s) == upstream[s].kind \in {"http", "decode"}

-----------------------------------------------------------------------------
(* C1: stability, per source.  Every result of process_source, every        *)
(* per-source feed document main has written and the feed compute_buckets   *)
(* built have cursor = prev_cursor when changed is false.                   *)

C1_Stability ==
    /\ \A s \in Processed :
           LET r == ResultOf(source_results, s)
           IN  ~r.changed => r.cursor = r.prev_cursor
    /\ \A s \in Sources :
           src_latest[s] # <<>> =>
               (~src_latest[s][1].changed => src_latest[s][1].cursor = src_latest[s][1].prev_cursor)
    /\ molt_feed # <<>> =>
           (~molt_feed[1].changed => molt_feed[1].cursor = molt_feed[1].prev_cursor)

\* An unchanged source of the engine with a stored cursor, its feed written.
C1_Witness ==
    /\ EngineRunDone
    /\ \E s \in Processed :
           /\ ResultOf(source_results, s).status = "ok"
           /\ ~ResultOf(source_results, s).changed
           /\ ResultOf(source_results, s).cursor # ZERO_CURSOR
           /\ src_latest[s] # <<>> /\ ~src_latest[s][1].changed

(* C2: stability, global.  In a run in which no source is changed the       *)
(* global feed has changed = false and cursor = prev_cursor, and the        *)
(* _global.last_cursor written is the one loaded (the zero sentinel when    *)
(* none was stored).                                                        *)

C2_GlobalStability ==
    (feed # <<>> /\ \A s \in Configured : ~ResultOf(source_results, s).changed) =>
        /\ ~feed[1].changed
        /\ feed[1].cursor = feed[1].prev_cursor
        /\ pc \in {"summary", "idle"} =>
               fleet_file[1].global.last_cursor =
                   (IF fleet_state.global.last_cursor = <<>> THEN ZERO_CURSOR
                    ELSE fleet_state.global.last_cursor)

\* A completed run without changes after a run that stored a global cursor.
C2_Witness ==
    /\ EngineRunDone
    /\ feed # <<>>
    /\ \A s \in Configured : ~ResultOf(source_results, s).changed
    /\ fleet_state.global.last_cursor \notin {<<>>, ZERO_CURSOR}
    /\ fleet_file[1].global.last_cursor = fleet_state.global.last_cursor

(* C3: quarantine in the engine.  An item process_source puts in a bucket   *)
(* with risk.score >= 0.4 is in flagged and in no other bucket; one with    *)
(* risk.score < 0.4 is not in flagged.                                      *)

C3_Quarantine ==
    \A s \in Processed :
        LET b == ResultOf(source_results, s).buckets
        IN  \A n \in BucketNames : \A item \in Range(b[n]) :
                /\ item.risk.score >= 4 =>
                       /\ n = "flagged"
                       /\ \A m \in BucketNames \ {"flagged"} : item \notin Range(b[m])
                /\ item.risk.score < 4 => n # "flagged"

\* One result with an item of score 0.4 in flagged and another item in new.
C3_Witness ==
    \E s \in Processed :
        LET b == ResultOf(source_results, s).buckets
        IN  /\ \E item \in Range(b.flagged) : item.risk.score = 4
            /\ b.new # <<>>

(* C4: bucket disjointness.  In every per-source feed and in the global     *)
(* feed no identity (source, id) is both in flagged and in one of new,      *)
(* updated, removed.                                                        *)

C4_BucketsDisjoint ==
    \A doc \in EngineFeeds :
        Ids(doc.buckets.flagged)
            \cap (Ids(doc.buckets.new) \cup Ids(doc.buckets.updated) \cup Ids(doc.buckets.removed))
        = {}

(* C5: no-change short circuit.  When the source hash of this run's         *)
(* normalized items equals the stored last_hash, process_source returns     *)
(* status ok, changed false, four empty buckets and cursor = prev_cursor =  *)
(* the stored last_cursor (the zero sentinel when none is stored).          *)

\* The source hash of what the fetch of s returned in this run
HashOfUpstream(s) ==
    LET items == upstream[s].items
    IN  compute_source_hash(s, MaxItemsOf(config.sources[s]),
            [i \in 1..Len(items) |-> normalize_item(s, items[i], clock)])

C5_ShortCircuit ==
    \A s \in Processed :
        (upstream[s].kind = "ok" /\ HashOfUpstream(s) = fleet_state.sources[s].last_hash) =>
            LET r == ResultOf(source_results, s)
                stored == fleet_state.sources[s].last_cursor
                expected == IF stored = <<>> THEN ZERO_CURSOR ELSE stored
            IN  /\ r.status = "ok"
                /\ ~r.changed
                /\ r.has_buckets
                /\ \A n \in BucketNames : r.buckets[n] = <<>>
                /\ r.cursor = expected
                /\ r.prev_cursor = expected

\* The short circuit taken for a non-empty list against a stored cursor.
C5_Witness ==
    \E s \in Processed :
        /\ upstream[s].kind = "ok"
        /\ upstream[s].items # <<>>
        /\ HashOfUpstream(s) = fleet_state.sources[s].last_hash
        /\ fleet_state.sources[s].last_cursor # <<>>
        /\ ~ResultOf(source_results, s).changed

(* C6: two consecutive completed cycles in which the upstream of an enabled  *)
(* source returns the same items.  The second cycle's result and per-source *)
(* feed have changed = false, empty buckets and the cursor the first cycle  *)
(* produced; when that holds of every source, diff/latest.json is not       *)
(* written during the second cycle.                                         *)

\* Source s returned the same items in the previous cycle and in this one
SameItems(s) ==
    /\ upstream[s].kind = "ok"
    /\ prev_upstream[s] = upstream[s]

C6_SecondCycleUnchanged ==
    (EngineRunDone /\ cycle >= 2) =>
        /\ \A s \in Configured :
               SameItems(s) =>
                   LET r == ResultOf(source_results, s)
                   IN  /\ ~r.changed
                       /\ \A n \in BucketNames : r.buckets[n] = <<>>
                       /\ r.cursor = CursorOrZero(fleet_state.sources[s].last_cursor)
                       /\ src_latest[s] # <<>> =>
                              /\ ~src_latest[s][1].changed
                              /\ \A n \in BucketNames : src_latest[s][1].buckets[n] = <<>>
                              /\ src_latest[s][1].cursor = src_before[s][1].cursor
        /\ (\A s \in Configured : upstream[s].kind = "none" \/ SameItems(s)) =>
               /\ "diff/latest.json" \notin written
               /\ top_latest = top_before

\* A second cycle over the same non-empty list, the first cycle having
\* published a cursor for it.
C6_Witness ==
    /\ EngineRunDone
    /\ cycle >= 2
    /\ \A s \in Configured : upstream[s].kind = "none" \/ SameItems(s)
    /\ \E s \in Configured :
           /\ SameItems(s)
           /\ upstream[s].items # <<>>
           /\ src_before[s] # <<>>
           /\ src_before[s][1].changed
           /\ src_latest[s][1].cursor = src_before[s][1].cursor
           /\ src_latest[s][1].cursor # ZERO_CURSOR

(* C7: idempotence.  Two runs of process_source from the same fleet state   *)
(* over the same response, at different wall-clock times, give per-source   *)
(* feed documents that are equal in every field other than generated_at.    *)

\* The per-source feed of s in this run and in the run one second later,
\* generated_at left out
FeedOf(s) == SourceFeed(s, ResultOf(source_results, s), 0)

TwinFeedOf(s) == SourceFeed(s, ResultOf(twin, s), 0)

C7_Idempotent ==
    \A s \in Processed : FeedOf(s) = TwinFeedOf(s)

\* best_effort_times took the item's dates from the clock
Undated(item) == item.published_at = item.provenance.fetched_at

\* An item without the fields that hold the time of the run
Timeless(item, other) ==
    LET undated == Undated(item) /\ Undated(other)
    IN  [item EXCEPT !.provenance.fetched_at = 0,
                     !.published_at = IF undated THEN 0 ELSE @,
                     !.updated_at = IF undated THEN 0 ELSE @]

TimelessBuckets(buckets, others) ==
    [n \in BucketNames |->
        [i \in 1..Len(buckets[n]) |->
            IF i <= Len(others[n]) THEN Timeless(buckets[n][i], others[n][i])
            ELSE buckets[n][i]]]

\* C7 as amended: the two documents are equal in every field other than
\* generated_at, each bucket item's provenance.fetched_at, and the
\* published_at and updated_at of the items that got them from the clock.
C7_IdempotentButTimes ==
    \A s \in Processed :
        [FeedOf(s) EXCEPT !.buckets = TimelessBuckets(@, TwinFeedOf(s).buckets)]
        = [TwinFeedOf(s) EXCEPT !.buckets = TimelessBuckets(@, FeedOf(s).buckets)]

\* A changed source with a dated and an undated item in its buckets.
C7_Witness ==
    \E s \in Processed :
        LET b == FeedOf(s).buckets
            t == TwinFeedOf(s).buckets
        IN  /\ FeedOf(s).changed
            /\ \E n \in BucketNames : \E i \in 1..Len(b[n]) :
                   Undated(b[n][i]) /\ Undated(t[n][i])
            /\ \E n \in BucketNames : \E i \in 1..Len(b[n]) :
                   ~Undated(t[n][i])

(* C8: when the fetch returns an error message or a status other than 200   *)
(* (or raises), process_source returns status error, changed false and      *)
(* cursor = prev_cursor = the stored last_cursor (the zero sentinel if      *)
(* absent), and the entry written to the fleet state is the one loaded with *)
(* only last_error and last_error_at set.                                   *)

C8_ErrorKeepsState ==
    \A s \in Processed :
        upstream[s].kind \in {"http", "decode", "raise"} =>
            LET r == ResultOf(source_results, s)
                before == fleet_state.sources[s]
                expected == IF before.last_cursor = <<>> THEN ZERO_CURSOR ELSE before.last_cursor
            IN  /\ r.status = "error"
                /\ ~r.changed
                /\ r.cursor = expected
                /\ r.prev_cursor = expected
                /\ pc \in {"summary", "idle"} =>
                       LET after == fleet_file[1].sources[s]
                       IN  /\ after.last_hash = before.last_hash
                           /\ after.last_cursor = before.last_cursor
                           /\ after.last_success_at = before.last_success_at
                           /\ after.last_error = r.error
                           /\ after.last_error # <<>>
                           /\ after.last_error_at = clock

\* A failed fetch of a source that succeeded in the cycle before.
C8_Witness ==
    /\ EngineRunDone
    /\ \E s \in Processed :
           /\ FetchFailed(s)
           /\ fleet_state.sources[s].last_hash # <<>>
           /\ fleet_state.sources[s].last_cursor \notin {<<>>, ZERO_CURSOR}
           /\ fleet_state.sources[s].last_success_at > 0
           /\ fleet_file[1].sources[s].last_cursor = fleet_state.sources[s].last_cursor

(* C9: when the fetch of a source fails, the known-issues file after the    *)
(* cycle holds a single issue, with issue_key "<source>_fetch_failed".      *)

\* known_issues.json holds exactly one issue, of that key
SingleIssue(issue_key) ==
    /\ known_issues # <<>>
    /\ Len(known_issues[1].issues) = 1
    /\ known_issues[1].issues[1].issue_key = issue_key

C9_FetchFailedIssue ==
    /\ EngineRunDone =>
           \A s \in Configured : FetchFailed(s) => SingleIssue(<<s, "_fetch_failed">>)
    /\ (script = "generate" /\ exit_code = 1) => SingleIssue(<<"moltbook", "_fetch_failed">>)

(* C10: main exits with status 1 if and only if a configured source ended   *)
(* the cycle with status error or the configuration file is missing, and    *)
(* with status 0 otherwise; when it exits with 1 after a cycle, the         *)
(* per-source feeds and the fleet state of that cycle have been written.    *)

\* Some configured source has status error
SomeError ==
    \E s \in Configured : source_results[s] # <<>> /\ ResultOf(source_results, s).status = "error"

C10_ExitStatus ==
    (script = "engine" /\ pc = "idle" /\ exit_code # -1) =>
        /\ exit_code \in {0, 1}
        /\ exit_code = 1 <=> (~config.exists \/ SomeError)
        /\ (exit_code = 1 /\ config.exists) =>
               /\ "diff/_state.json" \in written
               /\ fleet_file # <<>> /\ fleet_file[1].global.last_run_at = clock
               /\ \A s \in Configured :
                      config.sources[s].latest # "" =>
                          /\ config.sources[s].latest \in written
                          /\ src_latest[s] # <<>>
                          /\ src_latest[s][1].generated_at = clock

\* An exit with status 1 after a cycle with one failed and one successful
\* source, both feeds written.
C10_Witness ==
    /\ EngineRunDone
    /\ exit_code = 1
    /\ \E s, t \in Configured :
           /\ ResultOf(source_results, s).status = "error"
           /\ ResultOf(source_results, t).status = "ok"
           /\ src_latest[s] # <<>> /\ src_latest[s][1].sources[s].status = "error"
           /\ src_latest[t] # <<>>

(* C11: per-source emission.  In every completed cycle a per-source feed    *)
(* document is written for every source of the configuration; for a         *)
(* disabled or failing source it has changed = false, four empty buckets    *)
(* and cursor = prev_cursor = the stored last_cursor (the zero sentinel if  *)
(* none).                                                                   *)

C11_EveryFeedWritten ==
    EngineRunDone =>
        \A s \in Configured :
            /\ src_latest[s] # <<>>
            /\ src_latest[s][1].generated_at = clock
            /\ ResultOf(source_results, s).status \in {"disabled", "error"} =>
                   LET doc == src_latest[s][1]
                       stored == CursorOrZero(fleet_state.sources[s].last_cursor)
                   IN  /\ ~doc.changed
                       /\ \A n \in BucketNames : doc.buckets[n] = <<>>
                       /\ doc.cursor = stored
                       /\ doc.prev_cursor = stored

(* C12: conditional global publication.  main writes diff/latest.json in a  *)
(* cycle if and only if some source has changed = true in that cycle; in a  *)
(* cycle without a changed source the file is left as it was; the           *)
(* per-source feeds and the fleet state are written in both cases.          *)

\* Some source result of this run has changed = true
SomeChanged ==
    \E s \in Configured : ResultOf(source_results, s).changed

C12_GlobalWrittenOnChange ==
    EngineRunDone =>
        /\ "diff/latest.json" \in written <=> SomeChanged
        /\ SomeChanged => top_latest = feed
        /\ ~SomeChanged => top_latest = top_before
        /\ "diff/_state.json" \in written
        /\ fleet_file[1].global.last_run_at = clock
        /\ \A s \in Configured :
               config.sources[s].latest # "" =>
                   /\ config.sources[s].latest \in written
                   /\ src_latest[s][1].generated_at = clock

\* A cycle without a change after a cycle that published the global feed:
\* the file still holds the earlier document.
C12_Witness ==
    /\ EngineRunDone
    /\ ~SomeChanged
    /\ top_latest # <<>>
    /\ top_latest # feed
    /\ top_latest[1].changed
    /\ \E s \in Configured : src_latest[s] # <<>> /\ src_latest[s] # src_before[s]

(* C13: global aggregation.  The global feed's changed flag is true iff     *)
(* some source result has changed = true; its sources map has one entry per *)
(* configured source with that source's changed flag, cursor and status (an *)
(* unchanged source keeps its previous cursor); its buckets are the         *)
(* buckets of the changed sources, concatenated in configuration order.     *)

\* Bucket n of the first k sources of the configuration that changed
RECURSIVE ChangedItems(_, _)
ChangedItems(n, k) ==
    IF k = 0 THEN <<>>
    ELSE LET r == ResultOf(source_results, Order[k])
         IN  ChangedItems(n, k - 1) \o (IF r.changed THEN r.buckets[n] ELSE <<>>)

C13_GlobalAggregation ==
    feed # <<>> =>
        /\ feed[1].changed <=> SomeChanged
        /\ DOMAIN feed[1].sources = Configured
        /\ \A s \in Configured :
               LET r == ResultOf(source_results, s)
                   entry == feed[1].sources[s]
               IN  /\ entry.changed = r.changed
                   /\ entry.cursor = r.cursor
                   /\ entry.status = r.status
                   /\ ~r.changed =>
                          entry.cursor = CursorOrZero(fleet_state.sources[s].last_cursor)
        /\ \A n \in BucketNames : feed[1].buckets[n] = ChangedItems(n, Len(Order))

\* Two changed sources with items in the same bucket, after a cycle that
\* gave both a cursor.
C13_Witness ==
    /\ feed # <<>>
    /\ feed[1].changed
    /\ \A s \in Configured : ResultOf(source_results, s).changed
    /\ \E s, t \in Configured :
           /\ s # t
           /\ ResultOf(source_results, s).buckets.new # <<>>
           /\ ResultOf(source_results, t).buckets.new # <<>>
    /\ Len(feed[1].buckets.new) >= 2

(* C14: failure isolation.  Whatever sources fail to fetch or raise in a    *)
(* cycle, every other configured source is processed in that cycle, and its *)
(* result, its per-source feed (apart from generated_at) and its            *)
(* fleet-state entry are what its own configuration, stored entry and       *)
(* upstream alone determine.                                                *)

\* Source s failed in this run: its fetch failed or its adapter raised
Failed(s) == upstream[s].kind \in {"http", "decode", "raise"}

\* What process_source returns for s when no other source has any state
Alone(s) ==
    process_source(s, config.sources[s],
                   [EmptyFleet EXCEPT !.sources[s] = fleet_state.sources[s]],
                   upstream[s], clock)

\* The loop over the sources has ended
LoopDone == script = "engine" /\ pc \in {"global", "persource", "state", "summary"}

C14_FailureIsolation ==
    /\ (LoopDone \/ EngineRunDone) =>
           \A s \in Configured :
               /\ source_results[s] # <<>>
               /\ ~Failed(s) => ResultOf(source_results, s) = Alone(s).result
    /\ EngineRunDone =>
           \A s \in Configured :
               ~Failed(s) =>
                   /\ config.sources[s].latest # "" =>
                          src_latest[s] = <<SourceFeed(s, Alone(s).result, clock)>>
                   /\ fleet_file[1].sources[s] =
                          ApplyUpdate(fleet_state.sources[s], Alone(s).update)

\* The first source fails and the second one publishes a change and stores
\* its hash.
C14_Witness ==
    /\ EngineRunDone
    /\ Failed(Order[1])
    /\ ~Failed(Order[2])
    /\ ResultOf(source_results, Order[2]).changed
    /\ ResultOf(source_results, Order[2]).buckets.new # <<>>
    /\ src_latest[Order[2]][1].changed
    /\ fleet_file[1].sources[Order[2]].last_hash # <<>>

(* C15: a configuration error is fatal to its source only.  An enabled      *)
(* source with an unknown adapter, with no adapter or with no paths.latest  *)
(* ends the cycle with status error, so the exit status is 1; its           *)
(* last_hash and last_cursor in the fleet state are not changed; every      *)
(* other source is still processed.                                         *)

\* The configuration of source s is in error
Misconfigured(s) ==
    /\ config.sources[s].enabled
    /\ \/ config.sources[s].adapter \notin AdapterNames
       \/ config.sources[s].latest = ""

C15_ConfigErrorFatalToSource ==
    EngineRunDone =>
        \A s \in Configured :
            Misconfigured(s) =>
                /\ ResultOf(source_results, s).status = "error"
                /\ exit_code = 1
                /\ fleet_file[1].sources[s].last_hash = fleet_state.sources[s].last_hash
                /\ fleet_file[1].sources[s].last_cursor = fleet_state.sources[s].last_cursor
                /\ \A t \in Configured : source_results[t] # <<>>

(* C16: duplicate ids within a cycle.  When fetched raw items normalize to  *)
(* the same id only the first is kept: each id is at most once in the       *)
(* buckets of the source's result and at most once in the item lists the    *)
(* source hash and the cursor are computed from.                            *)

\* No two items of the list have the same id
NoRepeatedId(items) ==
    \A i, j \in 1..Len(items) : items[i].id = items[j].id => i = j

C16_DuplicateIdsDropped ==
    \A s \in Processed :
        LET r == ResultOf(source_results, s)
            upd == updated_fleet_state[s]
        IN  /\ r.changed =>
                   /\ NoRepeatedId(r.buckets.new \o r.buckets.updated
                                   \o r.buckets.removed \o r.buckets.flagged)
                   /\ NoRepeatedId(r.cursor[2].items)
            /\ (upd.kind = "ok" /\ upstream[s].kind = "ok") =>
                   NoRepeatedId(compute_source_hash(s, MaxItemsOf(config.sources[s]),
                       [i \in 1..Len(upstream[s].items) |->
                           normalize_item(s, upstream[s].items[i], clock)])[2].items)

(* C17: empty cycle.  When a successful fetch returns no items for a source *)
(* whose stored last_hash comes from a non-empty earlier cycle, the result  *)
(* has changed = false and cursor = prev_cursor = the stored last_cursor,   *)
(* the removed bucket is empty, and the stored last_hash and last_cursor    *)
(* are not replaced.                                                        *)

\* The fetch of s succeeded with no items and the stored hash is that of a
\* non-empty list
EmptyCycle(s) ==
    /\ upstream[s].kind = "ok"
    /\ upstream[s].items = <<>>
    /\ fleet_state.sources[s].last_hash # <<>>
    /\ fleet_state.sources[s].last_hash[2].items # <<>>

C17_EmptyCycleUnchanged ==
    \A s \in Processed :
        EmptyCycle(s) =>
            LET r == ResultOf(source_results, s)
                before == fleet_state.sources[s]
                after == ApplyUpdate(before, updated_fleet_state[s])
            IN  /\ ~r.changed
                /\ r.cursor = CursorOrZero(before.last_cursor)
                /\ r.prev_cursor = CursorOrZero(before.last_cursor)
                /\ r.buckets.removed = <<>>
                /\ after.last_hash = before.last_hash
                /\ after.last_cursor = before.last_cursor

(* C18: an upstream item with neither a title nor a url (content present,   *)
(* fetch ok with status 200) gets the risk reasons missing_title and        *)
(* missing_url and score 0.4, is placed in flagged only, and the            *)
(* per-source narrative includes "1 flagged".                               *)

\* The text holds the words as a run of its tokens
Includes(text, words) ==
    \E i \in 1..Len(text) : SubSeq(text, i, i + Len(words) - 1) = words

\* The fetch of s returned one item, which has content but no title and url
OnlyUntitledUnlinked(s) ==
    /\ upstream[s].kind = "ok"
    /\ upstream[s].status = HTTP_OK
    /\ Len(upstream[s].items) = 1
    /\ upstream[s].items[1].title = <<>>
    /\ upstream[s].items[1].url = <<>>
    /\ ~IsBlank(upstream[s].items[1].content)

C18_UntitledUnlinkedFlagged ==
    \A s \in Processed :
        (OnlyUntitledUnlinked(s) /\ ResultOf(source_results, s).changed) =>
            LET r == ResultOf(source_results, s)
            IN  /\ r.buckets.new = <<>>
                /\ Len(r.buckets.flagged) = 1
                /\ r.buckets.flagged[1].risk.score = 4
                /\ Range(r.buckets.flagged[1].risk.reasons) = {"missing_title", "missing_url"}
                /\ Includes(SourceFeed(s, r, clock).batch_narrative, <<"1", " ", "flagged">>)

(* C19: risk evaluator v0.  For every item and transport outcome            *)
(* calculate_risk_v0 returns score = min(1.0, 0.2 for a missing or blank    *)
(* title + 0.2 for a missing or blank url + 0.2 for a missing or blank      *)
(* content + 0.5 when the fetch failed or a status other than 200 is        *)
(* given), and as reasons exactly the codes of the conditions that hold;    *)
(* so 0 <= score <= 1 and there are at most 10 reasons.                     *)

\* The text is missing or made of whitespace only
MissingOrBlank(text) == \A i \in 1..Len(text) : text[i] = " "

\* The reason codes that apply to a call of calculate_risk_v0
ReasonsFor(item, fetch_failed, http_status) ==
    (IF MissingOrBlank(item.title) THEN {"missing_title"} ELSE {})
    \cup (IF MissingOrBlank(item.url) THEN {"missing_url"} ELSE {})
    \cup (IF MissingOrBlank(item.content) THEN {"missing_content"} ELSE {})
    \cup (IF fetch_failed \/ (http_status # -1 /\ http_status # 200) THEN {"fetch_error"} ELSE {})

\* The contribution of a reason code, in tenths
Contribution(reason) == IF reason = "fetch_error" THEN 5 ELSE 2

RECURSIVE SumOver(_)
SumOver(reasons) ==
    IF reasons = {} THEN 0
    ELSE LET r == CHOOSE x \in reasons : TRUE
         IN  Contribution(r) + SumOver(reasons \ {r})

C19_RiskV0 ==
    called.op = "calculate_risk_v0" =>
        LET expected == ReasonsFor(called.args[1], called.args[2], called.args[3])
        IN  /\ returned.score = (IF SumOver(expected) > 10 THEN 10 ELSE SumOver(expected))
            /\ Range(returned.reasons) = expected
            /\ Len(returned.reasons) = Cardinality(expected)
            /\ 0 <= returned.score /\ returned.score <= 10
            /\ Len(returned.reasons) <= 10

\* A call with all four conditions: the sum 1.1 is capped at 1.0.
C19_Witness ==
    /\ called.op = "calculate_risk_v0"
    /\ Cardinality(ReasonsFor(called.args[1], called.args[2], called.args[3])) = 4
    /\ returned.score = 10

(* C20: atomic publication per file.  While write_json_atomic replaces a    *)
(* published path, a concurrent reader of that path reads either the        *)
(* complete previous document or the complete new one, never a partly       *)
(* written one.                                                             *)

\* rbuf is the start of the text
IsPrefix(text) == Len(rbuf) <= Len(text) /\ SubSeq(text, 1, Len(rbuf)) = rbuf

C20_AtomicPublication ==
    /\ rpc = "reading" =>
           \E v \in 1..wdoc : IsPrefix(Document(v))
    /\ rpc = "done" =>
           \E v \in 1..wdoc : rbuf = Document(v)

\* The reader has read the whole previous document while the next one is
\* half written to the temporary file.
C20_Witness ==
    /\ rpc = "done"
    /\ rbuf = Document(1)
    /\ wdoc = 2
    /\ wpc = "dump"
    /\ files[dirent[TmpPath(PublishedPath)]] # <<>>


(* C21: a cycle is all-or-nothing for a reader.  At no instant of a cycle   *)
(* do some of the published files (the global feed, the per-source feeds)   *)
(* carry this cycle's document while others, which this cycle replaces,     *)
(* still carry the document of the previous cycle.                          *)

\* The paths this cycle publishes, once the global feed has been built
Publishes ==
    { config.sources[s].latest : s \in { t \in Configured : config.sources[t].latest # "" } }
    \cup (IF feed[1].changed THEN {"diff/latest.json"} ELSE {})

C21_CycleAllOrNothing ==
    (script = "engine" /\ feed # <<>>) =>
        \/ written \cap Publishes = {}
        \/ Publishes \subseteq written


(* C22: the fleet state is written last.  In every cycle diff/_state.json   *)
(* is written after the global feed (when it is written) and after every    *)
(* per-source feed; so wherever the run stops before that write, the file   *)
(* still holds the last_hash and last_cursor of every source and the        *)
(* _global.last_cursor of the previous completed cycle.                     *)

\* main is between loading the fleet state and writing it back
BeforeStateWrite == script = "engine" /\ pc \in {"process", "global", "persource", "state"}

C22_FleetStateLast ==
    /\ BeforeStateWrite =>
           /\ "diff/_state.json" \notin written
           /\ LoadedFleet = fleet_state
           /\ fleet_file # <<>> => fleet_file = <<fleet_state>>
    /\ (script = "engine" /\ "diff/_state.json" \in written) =>
           /\ feed # <<>>
           /\ Publishes \subseteq written

\* A second cycle has published a changed global feed and a per-source feed
\* and the state file still holds what the first cycle stored.
C22_Witness ==
    /\ script = "engine"
    /\ pc = "state"
    /\ cycle = 2
    /\ "diff/latest.json" \in written
    /\ \E s \in Configured :
           /\ config.sources[s].latest \in written
           /\ updated_fleet_state[s].kind = "ok"
           /\ fleet_file[1].sources[s].last_cursor # ResultOf(source_results, s).cursor
           /\ fleet_file[1].sources[s].last_cursor # <<>>


(* C23: equal cursors imply equal content.  Two feed documents published    *)
(* for the same source in two cycles that carry the same cursor have the    *)
(* same new, updated, removed and flagged buckets and the same changed      *)
(* flag.                                                                    *)

C23_EqualCursorEqualContent ==
    EngineRunDone =>
        \A s \in Configured :
            (/\ src_before[s] # <<>>
             /\ src_latest[s] # <<>>
             /\ src_before[s][1].cursor = src_latest[s][1].cursor) =>
                /\ src_before[s][1].buckets = src_latest[s][1].buckets
                /\ src_before[s][1].changed = src_latest[s][1].changed


(* C24: ttl_sec is at least 1.  Every per-source result and every published *)
(* feed document has ttl_sec >= 1, whatever ttl_sec (0, a negative number   *)
(* or none) the configuration of the source supplies.                       *)

C24_TtlPositive ==
    script = "engine" =>
        /\ \A s \in Processed : source_results[s][1].ttl_sec >= 1
        /\ \A doc \in EngineFeeds : doc.ttl_sec >= 1


(* C25: narrative bound.  The batch_narrative of every feed document the    *)
(* engine builds (for ok, disabled and error sources, for any error message *)
(* and any titles) has at most 30 whitespace-delimited words and ends with  *)
(* "." or "...".                                                            *)

\* The text ends with a full stop or an ellipsis
EndsWithStop(text) ==
    text # <<>> /\ text[Len(text)] \in {".", "...", "'.", "detected.", "disabled."}

C25_NarrativeBound ==
    called.op = "source_feed" =>
        /\ Len(Words(returned.batch_narrative)) <= NARRATIVE_MAX_WORDS
        /\ EndsWithStop(returned.batch_narrative)


(* C26: whitespace insensitivity.  Adding or removing leading or trailing   *)
(* whitespace in an item's title or content changes neither                 *)
(* compute_content_hash of the item nor compute_source_hash of the item     *)
(* list; a cycle whose upstream differs from the previous cycle's in such   *)
(* whitespace only has changed = false and keeps the cursor.                *)

C26_WhitespaceInsensitive ==
    called.op = "padded" =>
        /\ returned.content_hash[1] = returned.content_hash[2]
        /\ returned.source_hash[1] = returned.source_hash[2]
        /\ ~returned.second.changed
        /\ returned.second.cursor = returned.first.cursor


(* C27: known-issues churn avoidance.  set_known_issues rewrites            *)
(* known_issues.json only when the given issue list differs from the one on *)
(* disk, and a run of the generator that reports the same condition as the  *)
(* run before it (both succeeding, or both failing with the same error)     *)
(* leaves the file untouched.                                               *)

\* This step is a run of the generator that ends as the run before it ended
SameConditionAgain ==
    /\ script = "generate"
    /\ cycle' = cycle + 1
    /\ exit_code # -1
    /\ exit_code' = exit_code

C27_NoChurn ==
    [][SameConditionAgain =>
          /\ known_issues' = known_issues
          /\ "known_issues.json" \notin written']_vars


(* C28: quarantine in the legacy generator.  In every feed compute_buckets  *)
(* builds, an item whose risk.score is at least 0.4 is in the flagged list  *)
(* only, never in new or updated.                                           *)

C28_LegacyQuarantine ==
    (script = "generate" /\ molt_feed # <<>>) =>
        \A item \in Range(molt_feed[1].new) \cup Range(molt_feed[1].updated) :
            item.risk.score < 40     \* 0.4, in hundredths


(* C30: walk_back(source_id, limit) returns at most limit snapshots for     *)
(* every limit >= 0 and every archive index, taken from the end of the      *)
(* index's snapshot list, newest first, and stops at the first snapshot     *)
(* whose fetch fails.                                                       *)

\* The snapshots are those of a run of entries that ends where the list ends
\* or just before the first failing entry, in reverse order
FromTheEnd(snapshots, entries, limit, failing) ==
    \E k \in 0..Len(entries) :
        LET taken == SubSeq(entries, Len(entries) - k + 1, Len(entries))
            urls == SelectSeq(Reverse(taken), LAMBDA e : e.url # 0)
        IN  /\ k <= limit
            /\ snapshots = [i \in 1..Len(urls) |-> Snapshot(urls[i].url)]
            /\ \A i \in 1..Len(urls) : urls[i].url \notin failing
            /\ \/ k = Len(entries)
               \/ k = limit
               \/ entries[Len(entries) - k].url \in failing

C30_WalkBackLimit ==
    called.op = "walk_back" =>
        /\ Len(returned) <= called.args[2]
        /\ FromTheEnd(returned, called.args[1], called.args[2], called.args[3])


(* C29: head-first polling in the reference client.  Every call of poll or  *)
(* fetch_latest first requests head.json with If-None-Match set to the      *)
(* cached ETag (when one is cached); it returns None without requesting     *)
(* latest.json when the head answers 304 or has changed = false, and        *)
(* requests latest.json only after a non-304 head with changed true.        *)

\* The head request has been answered in the current call
HeadAnswered == head.status # 0

\* The call starts with the head request and asks for nothing after the
\* head but latest.json, once
HeadFirst ==
    requests # <<>> =>
        /\ requests[1] = HttpRequest("head.json", stored_etag)
        /\ Len(requests) <= 2
        /\ Len(requests) = 2 => (HeadAnswered /\ requests[2].url = "latest.json")

\* No latest.json after a 304 or a head with changed = false
QuietWhenUnchanged ==
    (HeadAnswered /\ (head.status = 304 \/ head.changed = "false")) =>
        /\ Len(requests) = 1
        /\ poll_result = "None"

C29_HeadFirstPolling ==
    script = "client" =>
        /\ HeadFirst
        /\ QuietWhenUnchanged
        /\ Len(requests) = 2 => (head.status # 304 /\ head.changed = "true")

(* C29 as the client behaves: latest.json is requested after a non-304 head *)
(* whose changed is true or absent (a head without the key counts as        *)
(* changed).                                                                *)
C29_HeadFirstUnlessUnchanged ==
    script = "client" =>
        /\ HeadFirst
        /\ QuietWhenUnchanged
        /\ Len(requests) = 2 => (head.status # 304 /\ head.changed \in {"true", "absent"})
        /\ (HeadAnswered /\ head.status # 304 /\ head.changed \in {"true", "absent"}) =>
               Len(requests) = 2

\* A later call that sent the cached ETag, got a changed head and the feed,
\* after an earlier state of the server was answered.
C29_Witness ==
    /\ script = "client"
    /\ polls >= 2
    /\ requests[1].if_none_match # <<>>
    /\ head.status = 200
    /\ head.changed = "true"
    /\ Len(requests) = 2
    /\ poll_result = "feed"


(* C31: phase-1 routing.  On the changed path of process_source every       *)
(* normalized item of the cycle is in exactly one bucket, new when its risk *)
(* score is below 0.4 and flagged otherwise, in the order the adapter       *)
(* returned the items; updated and removed are empty in every feed the      *)
(* engine produces.                                                         *)

\* What identifies a normalized item in a bucket
Key(item) == [id |-> item.id, url |-> item.url, title |-> item.title]

\* The normalized items of what the fetch of s returned in this run
NormalizedOf(s) ==
    [i \in 1..Len(upstream[s].items) |-> normalize_item(s, upstream[s].items[i], clock)]

\* The positions of 1..n that route sends to bucket name, in order
RECURSIVE Routed(_, _, _)
Routed(route, name, n) ==
    IF n = 0 THEN <<>>
    ELSE Routed(route, name, n - 1) \o (IF route[n] = name THEN <<n>> ELSE <<>>)

C31_PhaseOneRouting ==
    /\ \A s \in Processed :
           LET r == ResultOf(source_results, s)
               items == NormalizedOf(s)
               n == Len(items)
           IN  r.changed =>
                   /\ r.buckets.updated = <<>>
                   /\ r.buckets.removed = <<>>
                   /\ \E route \in [1..n -> {"new", "flagged"}] :
                          \A name \in {"new", "flagged"} :
                              LET at == Routed(route, name, n)
                                  bucket == r.buckets[name]
                              IN  /\ Len(bucket) = Len(at)
                                  /\ \A k \in 1..Len(at) :
                                         /\ Key(bucket[k]) = Key(items[at[k]])
                                         /\ (name = "new") <=> (bucket[k].risk.score < 4)
    /\ \A doc \in EngineFeeds :
           /\ doc.buckets.updated = <<>>
           /\ doc.buckets.removed = <<>>

\* Two items of one cycle, the first quarantined and the second not
C31_Witness ==
    \E s \in Processed :
        LET r == ResultOf(source_results, s)
        IN  /\ r.changed
            /\ Len(upstream[s].items) = 2
            /\ Len(r.buckets.new) = 1
            /\ Len(r.buckets.flagged) = 1
            /\ Key(r.buckets.flagged[1]) = Key(NormalizedOf(s)[1])


(* C32: frame of the no-change path.  When a cycle takes the no-change      *)
(* short circuit for a source, the only field of the source's fleet-state   *)
(* entry that differs after the cycle is last_success_at: last_hash,        *)
(* last_cursor, last_error and last_error_at keep their values.             *)

\* The cycle took the no-change short circuit for s
ShortCircuited(s) ==
    /\ s \in Processed
    /\ upstream[s].kind = "ok"
    /\ ResultOf(source_results, s).status = "ok"
    /\ ~ResultOf(source_results, s).changed

IsPermutation(a, b) ==
    /\ Len(a) = Len(b)
    /\ \E p \in [1..Len(a) -> 1..Len(a)] :
           /\ \A i, j \in 1..Len(a) : p[i] = p[j] => i = j
           /\ \A i \in 1..Len(a) : a[i] = b[p[i]]

\* Both this cycle and the one before fetched s, and got the same items
Reordered(s) ==
    /\ s \in Processed
    /\ cycle >= 2
    /\ upstream[s].kind = "ok"
    /\ prev_upstream[s].kind = "ok"
    /\ IsPermutation(upstream[s].items, prev_upstream[s].items)

C33_OrderIndependent ==
    \A s \in Configured :
        Reordered(s) =>
            /\ ~ResultOf(source_results, s).changed
            /\ HashOfUpstream(s) = fleet_state.sources[s].last_hash


(* C34: the validator as gate.  check_logic_invariants raises for a feed    *)
(* exactly when (a) changed is false or absent and cursor differs from      *)
(* prev_cursor, or (b) one of new, updated, removed, flagged is missing or  *)
(* not a list, looked up under buckets when that key is present and at the  *)
(* top level otherwise; and every per-source and global feed document       *)
(* written by the engine's main passes it.                                  *)

\* (a) changed is false or absent and the cursor moved
CursorMoved(loaded) ==
    loaded.changed \in {"false", "absent"} /\ loaded.cursor # loaded.prev_cursor

\* (b) a bucket is missing or not a list
BucketBroken(loaded) ==
    \E n \in BucketNames :
        \/ loaded.buckets # <<>> /\ loaded.buckets[1][n] \in {"missing", "other"}
        \/ loaded.buckets = <<>> /\ loaded.top[n] \in {"missing", "other"}

C34_ValidatorGate ==
    called.op = "check_logic_invariants" =>
        /\ returned = "raises" <=> (CursorMoved(called.args[1]) \/ BucketBroken(called.args[1]))
        /\ called.written_by = "engine" => returned = "passes"

\* An unchanged document of the engine that carries a stored cursor passes,
\* having its buckets under "buckets" and none at the top level.
C34_Witness ==
    /\ called.op = "check_logic_invariants"
    /\ called.written_by = "engine"
    /\ called.args[1].changed = "false"
    /\ called.args[1].cursor # ZERO_CURSOR
    /\ called.args[1].top["new"] = "missing"
    /\ returned = "passes"


(* C35: cursor chain continuity.  With a fixed configuration, for every     *)
(* source and every two consecutive completed cycles, the prev_cursor of    *)
(* the per-source feed published in the later cycle is the cursor of the    *)
(* per-source feed published in the earlier one, whatever the outcomes (ok, *)
(* unchanged, error, disabled) of the two cycles; and the prev_cursor of    *)
(* each newly written global feed is the cursor of the global feed written  *)
(* before it.                                                               *)

C35_CursorChain ==
    (EngineRunDone /\ cycle >= 2) =>
        /\ \A s \in Configured :
               (src_latest[s] # <<>> /\ src_before[s] # <<>>) =>
                   src_latest[s][1].prev_cursor = src_before[s][1].cursor
        /\ ("diff/latest.json" \in written /\ top_before # <<>>) =>
               top_latest[1].prev_cursor = top_before[1].cursor

\* Two changed cycles in a row: both chains advance from a cursor that is
\* not the zero sentinel, next to a source that failed or is disabled.
C35_Witness ==
    /\ EngineRunDone
    /\ cycle >= 2
    /\ "diff/latest.json" \in written
    /\ top_before # <<>>
    /\ top_latest[1].cursor # top_before[1].cursor
    /\ \E s \in Configured :
           /\ src_before[s] # <<>>
           /\ src_latest[s][1].changed
           /\ src_latest[s][1].prev_cursor # ZERO_CURSOR
    /\ \E s \in Configured :
           /\ src_before[s] # <<>>
           /\ src_latest[s][1].sources[s].status \in {"error", "disabled"}


(* C36: cross-file cursor agreement at cycle boundaries.  With a fixed      *)
(* configuration in which every source has paths.latest, at the end of      *)
(* every completed cycle after diff/latest.json has been written at least   *)
(* once, the cursor diff/latest.json records for each source equals the     *)
(* cursor of that source's per-source feed file on disk, even when          *)
(* diff/latest.json was last written several cycles ago.                    *)

C37_ChangedMovesCursor ==
    script = "engine" =>
        /\ \A s \in Processed :
               ResultOf(source_results, s).changed =>
                   ResultOf(source_results, s).cursor # ResultOf(source_results, s).prev_cursor
        /\ \A doc \in EngineFeeds : doc.changed => doc.cursor # doc.prev_cursor

\* A second cycle in which a source changed again: its previous cursor and
\* the previous global cursor are hashes, not the zero sentinel.
C37_Witness ==
    /\ EngineRunDone
    /\ cycle >= 2
    /\ \E s \in Processed :
           /\ ResultOf(source_results, s).changed
           /\ ResultOf(source_results, s).prev_cursor # ZERO_CURSOR
    /\ top_latest # <<>>
    /\ top_latest[1].changed
    /\ top_latest[1].prev_cursor # ZERO_CURSOR
    /\ "diff/latest.json" \in written


(* C38: a changed feed carries something.  Every per-source result of       *)
(* process_source with changed = true has at least one item in new, updated,*)
(* removed or flagged, for every prior fleet state and every successful     *)
(* fetch, a fetch of zero items on the first cycle of a source included.    *)

C38_ChangedCarriesItems ==
    script = "engine" =>
        \A s \in Processed :
            ResultOf(source_results, s).changed =>
                \E b \in BucketNames : ResultOf(source_results, s).buckets[b] # <<>>


(* C39: no lost update in the reference client.  When poll(source_id) gets  *)
(* a head that is not a 304 and says changed, and the request for           *)
(* latest.json that follows raises, a later poll(source_id) against the     *)
(* same server state still returns the feed: the cached ETag has not been   *)
(* advanced to the server's current one, so the later head request cannot   *)
(* be answered 304.                                                         *)

\* poll raised in _fetch_json(latest_url), after a head that said changed
LatestFetchFailed ==
    /\ script = "client"
    /\ cpc = "idle"
    /\ poll_result = "raised"
    /\ Len(requests) = 2
    /\ head.status = 200
    /\ HeadChanged(head)

C39_NoLostUpdate ==
    (LatestFetchFailed /\ stored_etag # <<server_cursor>>) =>
        /\ cache # <<server_cursor>>
        /\ cache = stored_etag


(* C40: legacy generator cursor monotonicity.  Over any sequence of runs of *)
(* compute_buckets in which each run's prev_cursor is the cursor of the     *)
(* last published feed, the cursor a run publishes is never behind its      *)
(* prev_cursor in the (updated_at, id) order of is_after_cursor; a run      *)
(* whose only change is a content edit of an item at or behind the boundary *)
(* does not publish an older cursor.                                        *)

C40_LegacyCursorMonotone ==
    (script = "generate" /\ molt_feed # <<>>) =>
        ~is_after_cursor(molt_feed[1].prev_cursor.ts, molt_feed[1].prev_cursor.id,
                         molt_feed[1].cursor)

====
